---- MODULE Spec2Model ----
(***************************************************************************)
(* Model of the voice-to-text plugin's format-resolution and transcoding   *)
(* subsystem: the binary-signature format detector with its TTL cache      *)
(* (core/audio_format_detector.py, utils/decorators.py), the conversion    *)
(* strategy engine (core/conversion_strategies.py, core/ffmpeg_manager.py) *)
(* and the converter pipeline built on them (core/audio_converter.py,      *)
(* services/voice_processing_service.py), together with the tool locator  *)
(* (core/ffmpeg_manager.py), the file locator (voice_file_resolver.py) and *)
(* the temp storage manager (core/temp_file_manager.py), tasks sharing one *)
(* service, and the group permission service                               *)
(* (services/permission_service.py).                                       *)
(*                                                                         *)
(* Environment assumptions, stated once:                                   *)
(*  - bytes are natural numbers 0..255, a header is a sequence of bytes;   *)
(*  - time.time() is an integer clock `now`;                               *)
(*  - os.remove of a file at the job's output path succeeds;               *)
(*  - exceptions are Python `Exception`s (task cancellation is not         *)
(*    modelled).                                                           *)
(***************************************************************************)
EXTENDS Integers, Sequences, FiniteSets, TLC

VARIABLES
    \* ---- format detector and its cache
    fs,        \* path -> file currently at that path
    cache,     \* cache_result's dict, one entry per path (one detector instance)
    now,       \* time.time()
    stale,     \* ghost: path -> the file changed after its cache entry was stored
    prev,      \* ghost: path -> result of the previous detect call on the unchanged file
    last,      \* the call the last step made, with its result (NoCall otherwise)
    \* ---- pure classification of one probe file
    probe,
    \* ---- one voice message through process_voice_file
    env,       \* what the host offers: os.name, ffmpeg, ffprobe, pilk
    pc,        \* where the message's task stands
    job,       \* the ConversionJob: input_format (output_format is 'mp3')
    idx,       \* convert_audio's loop index into self.strategies
    out,       \* the file at the job's output path
    conv,      \* the running strategy's convert: phase, retry attempt, sub-method
    writers,   \* strategies with a live worker thread or subprocess on the output path
    cres,      \* what the strategy's convert returned or that it raised
    engret,    \* what convert_audio returned
    ret,       \* what process_voice_file returned or that it raised
    log,       \* history: the calls convert_audio made, in order
    \* ---- the tool locator (one FFmpegManager instance)
    host,      \* what the machine holds: os.name, PATH, install paths, variables
    loc,       \* _ffmpeg_path, _search_attempted, _last_search_time
    ltime,     \* time.time() as the locator reads it
    lcall,     \* the call the last step made on the locator, with its result
    disc,      \* ghost: the last discovery (when, result) and whether it still stands
    \* ---- the file locator on one voice message
    voice,     \* the message: how each strategy would end on it
    rpc,       \* where resolve_voice_file_path stands
    rk,        \* its loop index into the strategy list
    rret,      \* what it returned
    rlog,      \* history: the strategies it ran, with what each handed back
    scratch,   \* the files its strategies wrote for the message, and whether
               \* the message's cleanup has run
    \* ---- the temp storage manager (one TempFileManager instance)
    tfiles,    \* scratch path -> the file on disk there
    tracked,   \* self._temp_files
    tlast,     \* self._last_cleanup
    ttime,     \* time.time() as the manager reads it
    scopes,    \* paths whose temp_file scope is open
    holders,   \* create_temp_file paths whose conversion is still under way
    tnext,     \* the next unused scratch path
    tcall,     \* the call the last step made on the manager
    \* ---- tasks sharing one VoiceProcessingService
    handed,    \* output paths returned to a task and not yet transcribed
    \* ---- the permission service (one PermissionService instance)
    perm,      \* the enable switches, blacklists and whitelists per action
    pcache,    \* the cache of cache_result around _check_group_permission
    ptime,     \* time.time() as that cache reads it
    pcall      \* the call the last step made on the service

detVars == <<fs, cache, now, stale, prev, last>>

pipeVars == <<env, pc, job, idx, out, conv, writers, cres, engret, ret, log>>

locVars == <<host, loc, ltime, lcall, disc>>

\* the detector, the probe and the pipeline together
coreVars == <<detVars, probe, pipeVars>>

resVars == <<voice, rpc, rk, rret, rlog, scratch>>

tmpVars == <<tfiles, tracked, tlast, ttime, scopes, holders, tnext, tcall>>

\* the components next to them
permVars == <<perm, pcache, ptime, pcall>>

svcVars == <<handed, permVars>>

auxVars == <<locVars, resVars, tmpVars, svcVars>>

\* everything but the locator, but the file locator, but the temp manager
locRest == <<coreVars, resVars, tmpVars, svcVars>>

resRest == <<coreVars, locVars, tmpVars, svcVars>>

tmpRest == <<coreVars, locVars, resVars, svcVars>>

\* everything but the manager and the tasks' hand-over, but the permissions
sharedRest == <<coreVars, locVars, resVars, permVars>>

permRest == <<coreVars, locVars, resVars, tmpVars, handed>>

vars == <<fs, cache, now, stale, prev, last, probe,
          env, pc, job, idx, out, conv, writers, cres, engret, ret, log,
          host, loc, ltime, lcall, disc,
          voice, rpc, rk, rret, rlog, scratch,
          tfiles, tracked, tlast, ttime, scopes, holders, tnext, tcall,
          handed, perm, pcache, ptime, pcall>>

(***************************************************************************)
(* Byte strings                                                            *)
(***************************************************************************)
Min(a, b) == IF a < b THEN a ELSE b

Take(s, n) == SubSeq(s, 1, Min(n, Len(s)))

\* bytes.startswith
StartsWith(s, prefix) ==
    /\ Len(prefix) <= Len(s)
    /\ SubSeq(s, 1, Len(prefix)) = prefix

\* `needle in haystack` for bytes
Contains(needle, haystack) ==
    \E i \in 1..(Len(haystack) - Len(needle) + 1) :
        SubSeq(haystack, i, i + Len(needle) - 1) = needle

b_AMR_NL == <<35, 33, 65, 77, 82, 10>>                       \* b'#!AMR\n'
b_AMR    == <<35, 33, 65, 77, 82>>                           \* b'#!AMR'
b_SILK   == <<2, 35, 33, 83, 73, 76, 75, 95, 86, 51>>        \* b'\x02#!SILK_V3'
b_ID3    == <<73, 68, 51>>                                   \* b'ID3'
b_FFFB   == <<255, 251>>                                     \* b'\xff\xfb'
b_FFF3   == <<255, 243>>                                     \* b'\xff\xf3'
b_RIFF   == <<82, 73, 70, 70>>                               \* b'RIFF'
b_OggS   == <<79, 103, 103, 83>>                             \* b'OggS'
b_fLaC   == <<102, 76, 97, 67>>                              \* b'fLaC'
b_WAVE   == <<87, 65, 86, 69>>                               \* b'WAVE'

(***************************************************************************)
(* Configuration (config.py)                                               *)
(***************************************************************************)
MAX_FILE_SIZE_MB == 25
MIN_FILE_SIZE_BYTES == 100
MaxFileSizeBytes == MAX_FILE_SIZE_MB * 1024 * 1024

SUPPORTED_FORMATS ==
    {"flac", "m4a", "mp3", "mp4", "mpeg", "mpga", "oga", "ogg", "wav", "webm"}

\* @cache_result(ttl_seconds=300)
ttl_seconds == 300

(***************************************************************************)
(* Files.  A path holds nothing, a directory, or a regular file with a     *)
(* size, a readability bit (open() succeeds) and its first bytes.          *)
(***************************************************************************)
HEADER_READ == 12

Missing == [kind |-> "missing", size |-> 0, readable |-> FALSE, content |-> <<>>]
Directory == [kind |-> "dir", size |-> 0, readable |-> FALSE, content |-> <<>>]

\* a regular file of `size` bytes whose bytes begin with `bytes`
RegularFile(size, readable, bytes) ==
    [kind |-> "file", size |-> size, readable |-> readable,
     content |-> Take(bytes, Min(size, HEADER_READ))]

\* f.read(n) on an opened file
ReadHeader(f, n) == Take(f.content, n)

(***************************************************************************)
(* AudioFormatDetector                                                     *)
(***************************************************************************)
\* self.format_signatures, in dict insertion order
format_signatures ==
    << [signature |-> b_AMR_NL, format |-> "amr"],
       [signature |-> b_AMR,    format |-> "amr"],
       [signature |-> b_SILK,   format |-> "silk"],
       [signature |-> b_ID3,    format |-> "mp3"],
       [signature |-> b_FFFB,   format |-> "mp3"],
       [signature |-> b_FFF3,   format |-> "mp3"],
       [signature |-> b_RIFF,   format |-> "wav"],
       [signature |-> b_OggS,   format |-> "ogg"],
       [signature |-> b_fLaC,   format |-> "flac"] >>

\* mutant: the size floor is compared with <= 0 only (the MIN check is lost)
validate_try_mutant_nomin(f) ==
    IF f.kind = "missing" THEN "False"
    ELSE IF f.kind # "file" THEN "False"
    ELSE IF f.size = 0 THEN "False"
    ELSE IF f.size > MAX_FILE_SIZE_MB * 1024 * 1024 THEN "False"
    ELSE IF ~f.readable THEN "raise"
    ELSE IF Len(ReadHeader(f, HEADER_READ)) < 5 THEN "False"
    ELSE "True"

\* the try block of validate_file: every early `return False`; open() of an
\* unreadable file raises
validate_try(f) ==
    IF f.kind = "missing" THEN "False"
    ELSE IF f.kind # "file" THEN "False"
    ELSE IF f.size = 0 THEN "False"
    ELSE IF f.size < MIN_FILE_SIZE_BYTES THEN "False"
    ELSE IF f.size > MAX_FILE_SIZE_MB * 1024 * 1024 THEN "False"
    ELSE IF ~f.readable THEN "raise"
    ELSE IF Len(ReadHeader(f, HEADER_READ)) < 5 THEN "False"
    ELSE "True"

\* validate_file: the try block under `except Exception: return False`
validate_file(f) ==
    LET r == validate_try(f) IN IF r = "raise" THEN "False" ELSE r

\* the tail of _identify_format_by_header, after the signature loop
IdentifyTail(header) ==
    IF Take(header, 2) \in {b_FFFB, b_FFF3} THEN "mp3" ELSE "None"

\* mutant: the WAVE check of the RIFF signature is dropped
RECURSIVE ScanSignaturesNoWave(_, _)
ScanSignaturesNoWave(header, i) ==
    IF i > Len(format_signatures) THEN IdentifyTail(header)
    ELSE IF StartsWith(header, format_signatures[i].signature)
         THEN format_signatures[i].format
         ELSE ScanSignaturesNoWave(header, i + 1)

\* the for loop of _identify_format_by_header from table entry i on
RECURSIVE ScanSignatures(_, _)
ScanSignatures(header, i) ==
    IF i > Len(format_signatures) THEN IdentifyTail(header)
    ELSE IF StartsWith(header, format_signatures[i].signature)
         THEN IF format_signatures[i].format = "wav" /\ ~Contains(b_WAVE, header)
              THEN ScanSignatures(header, i + 1)
              ELSE format_signatures[i].format
         ELSE ScanSignatures(header, i + 1)

identify_mutant_nowave(header) == ScanSignaturesNoWave(header, 1)

_identify_format_by_header(header) == ScanSignatures(header, 1)

\* mutant: an unrecognised header is reported as 'invalid'
detect_try_mutant_unknown_invalid(f) ==
    IF validate_file(f) # "True" THEN "invalid"
    ELSE IF ~f.readable THEN "raise"
    ELSE LET detected_format == _identify_format_by_header(ReadHeader(f, HEADER_READ))
         IN  IF detected_format # "None" THEN detected_format ELSE "invalid"

\* the try block of detect_format
detect_try(f) ==
    IF validate_file(f) # "True" THEN "invalid"
    ELSE IF ~f.readable THEN "raise"
    ELSE LET detected_format == _identify_format_by_header(ReadHeader(f, HEADER_READ))
         IN  IF detected_format # "None" THEN detected_format ELSE "unknown"

\* the body of detect_format (what the cache wrapper calls on a miss): the try
\* block under `except Exception: return 'invalid'`
detect_format_body(f) ==
    LET r == detect_try(f) IN IF r = "raise" THEN "invalid" ELSE r

is_supported_format(format_name) == format_name \in SUPPORTED_FORMATS

needs_conversion(format_name) ==
    ~is_supported_format(format_name) /\ format_name \notin {"invalid", "unknown"}

(***************************************************************************)
(* cache_result: the decorator's dict maps a key to (result, time).  The   *)
(* key is built from the function name and hash(str(args) + str(kwargs)),  *)
(* args being (detector, file_path): one key per path for one detector.    *)
(***************************************************************************)
Paths == {"a.amr", "b.mp3"}

NoEntry == [result |-> "none", time |-> 0]

\* mutant: the key is built from the function name alone
cache_key_mutant_nopath(file_path) == "detect_format"

\* cache_key = f"{func.__name__}:{hash(str(args) + str(kwargs))}"
cache_key(file_path) == file_path

\* mutant: an entry of any age is served
cache_fresh_mutant_noexpiry(entry, current_time) == entry # NoEntry

\* `cache_key in cache` and `current_time - cached_time < ttl_seconds`
cache_fresh(entry, current_time) ==
    /\ entry # NoEntry
    /\ current_time - entry.time < ttl_seconds

\* cache[cache_key] = (result, current_time), then the expired keys are deleted
cache_store(c, key, result, current_time) ==
    LET c1 == [c EXCEPT ![key] = [result |-> result, time |-> current_time]]
    IN  [k \in DOMAIN c1 |->
            IF c1[k] # NoEntry /\ current_time - c1[k].time >= ttl_seconds
            THEN NoEntry ELSE c1[k]]

(***************************************************************************)
(* The detector under a changing file system                               *)
(***************************************************************************)
TickStep == 150
MaxTime == 450

b_zero8 == <<0, 0, 0, 0, 0, 0, 0, 0>>

\* the files the environment can put at a path
DetCorpus ==
    { Missing, Directory,
      RegularFile(0, TRUE, <<>>),
      RegularFile(MIN_FILE_SIZE_BYTES - 1, TRUE, b_ID3 \o b_zero8),
      RegularFile(MIN_FILE_SIZE_BYTES, TRUE, b_zero8 \o b_zero8),
      RegularFile(MIN_FILE_SIZE_BYTES, TRUE, b_ID3 \o b_zero8),
      RegularFile(MaxFileSizeBytes, TRUE, b_RIFF \o b_zero8),
      RegularFile(MaxFileSizeBytes + 1, TRUE, b_zero8 \o b_zero8),
      RegularFile(4096, FALSE, b_zero8 \o b_zero8) }

\* the second path exists to tell the paths' cache entries apart
CorpusAt(p) ==
    IF p = "a.amr" THEN DetCorpus
    ELSE { Missing,
           RegularFile(MIN_FILE_SIZE_BYTES, TRUE, b_zero8 \o b_zero8),
           RegularFile(MIN_FILE_SIZE_BYTES, TRUE, b_ID3 \o b_zero8) }

NoCall == [op |-> "none", path |-> "", result |-> "", hit |-> FALSE,
           expired |-> FALSE, coherent |-> FALSE,
           prevResult |-> "none", prevCoherent |-> FALSE]

NoPrev == [result |-> "none", coherent |-> FALSE]

DetInit ==
    /\ fs \in [Paths -> {Missing, RegularFile(MIN_FILE_SIZE_BYTES, TRUE, b_ID3 \o b_zero8)}]
    /\ cache = [k \in {cache_key(p) : p \in Paths} |-> NoEntry]
    /\ now = 0
    /\ stale = [p \in Paths |-> FALSE]
    /\ prev = [p \in Paths |-> NoPrev]
    /\ last = NoCall

\* the detector is not in use (the other specifications)
DetIdle ==
    /\ fs = [p \in Paths |-> Missing]
    /\ cache = [k \in {cache_key(p) : p \in Paths} |-> NoEntry]
    /\ now = 0
    /\ stale = [p \in Paths |-> FALSE]
    /\ prev = [p \in Paths |-> NoPrev]
    /\ last = NoCall

\* the environment creates, replaces or deletes the file at a path
WriteFile(p, f) ==
    /\ f # fs[p]
    /\ fs' = [fs EXCEPT ![p] = f]
    /\ stale' = [stale EXCEPT ![p] = (cache[cache_key(p)] # NoEntry)]
    /\ prev' = [prev EXCEPT ![p] = NoPrev]
    /\ last' = NoCall
    /\ UNCHANGED <<cache, now, probe>>
    /\ UNCHANGED <<pipeVars, auxVars>>

\* time passes
Tick ==
    /\ now + TickStep <= MaxTime
    /\ now' = now + TickStep
    /\ last' = NoCall
    /\ UNCHANGED <<fs, cache, stale, prev, probe>>
    /\ UNCHANGED <<pipeVars, auxVars>>

\* a call of validate_file(p)
ValidateFile(p) ==
    /\ last' = [NoCall EXCEPT !.op = "validate", !.path = p,
                              !.result = validate_file(fs[p])]
    /\ UNCHANGED <<fs, cache, now, stale, prev, probe>>
    /\ UNCHANGED <<pipeVars, auxVars>>

\* the wrapper of cache_result around detect_format, called with path p
DetectCall(p) ==
    LET key == cache_key(p)
        entry == cache[key]
        hit == cache_fresh(entry, now)
        result == IF hit THEN entry.result ELSE detect_format_body(fs[p])
        coherent == IF hit THEN ~stale[p] ELSE TRUE
    IN  /\ cache' = IF hit THEN cache ELSE cache_store(cache, key, result, now)
        /\ stale' = IF hit THEN stale ELSE [stale EXCEPT ![p] = FALSE]
        /\ prev' = [prev EXCEPT ![p] = [result |-> result, coherent |-> coherent]]
        /\ last' = [op |-> "detect", path |-> p, result |-> result, hit |-> hit,
                    expired |-> (entry # NoEntry /\ ~hit), coherent |-> coherent,
                    prevResult |-> prev[p].result,
                    prevCoherent |-> prev[p].coherent]
        /\ UNCHANGED <<fs, now>>

\* a call of the cached detect_format(p)
DetectFormat(p) ==
    /\ DetectCall(p)
    /\ UNCHANGED probe
    /\ UNCHANGED <<pipeVars, auxVars>>

(***************************************************************************)
(* Classification of one file, without the cache                           *)
(***************************************************************************)
ProbePrefixes ==
    { <<>>, b_AMR_NL, b_AMR, b_SILK, b_ID3, b_FFFB, b_FFF3, b_RIFF, b_OggS, b_fLaC,
      <<35, 33, 65, 77, 88>>,                    \* b'#!AMX'
      <<35, 33, 83, 73, 76, 75, 95, 86, 51>>,    \* b'#!SILK_V3', no leading \x02
      <<255, 250>>,                              \* b'\xff\xfa'
      <<0, 255, 251>>,                           \* b'\x00\xff\xfb'
      <<82, 73, 70, 88>>,                        \* b'RIFX'
      <<73, 68>> }                               \* b'ID'

ProbeFills ==
    { b_zero8,
      <<0, 0, 0, 0>> \o b_WAVE,                  \* ....WAVE
      b_WAVE \o <<0, 0, 0, 0>>,                  \* WAVE....
      <<0, 0, 0, 0, 0, 87, 65, 86>>,             \* .....WAV, the E past byte 12
      b_OggS \o b_fLaC }

ProbeSizes == {MIN_FILE_SIZE_BYTES, 4096, MaxFileSizeBytes}

ProbeFiles ==
    { RegularFile(size, TRUE, pre \o fill \o b_zero8) :
        size \in ProbeSizes, pre \in ProbePrefixes, fill \in ProbeFills }

ProbeIdle == probe = [file |-> Missing, stage |-> "idle", result |-> ""]

ProbeInit ==
    \E f \in ProbeFiles : probe = [file |-> f, stage |-> "new", result |-> ""]

\* validate_file on the probe file
ProbeValidate ==
    /\ probe.stage = "new"
    /\ probe' = [probe EXCEPT !.stage = "validated",
                              !.result = validate_file(probe.file)]
    /\ UNCHANGED detVars
    /\ UNCHANGED <<pipeVars, auxVars>>

\* detect_format's body on the probe file
ProbeDetect ==
    /\ probe.stage \in {"new", "validated"}
    /\ probe' = [probe EXCEPT !.stage = "detected",
                              !.result = detect_format_body(probe.file)]
    /\ UNCHANGED detVars
    /\ UNCHANGED <<pipeVars, auxVars>>

(***************************************************************************)
(* Tool locator (core/ffmpeg_manager.py): discovery of the ffmpeg          *)
(* executable and the cache of its result.  The timestamp a discovery      *)
(* stores is the time read at the start of the call that ran it.           *)
(***************************************************************************)
SEARCH_CACHE_TIMEOUT_SECONDS == 3600

\* the variables _find_ffmpeg_executable reads, in the order it reads them
ffmpeg_env_names == <<"FFMPEG_PATH", "FFMPEG_BINARY", "FFMPEG_EXECUTABLE">>

\* the directories the recursive search walks, in order
search_dirs == <<"/usr", "/opt", "/app">>

\* One machine.  which: the commands shutil.which resolves; fixed: the first
\* entry of search_paths (a glob entry expanded) that is an executable file,
\* "" when none is; whereis / whichcmd: how the system command ends ("hit": it
\* prints a valid ffmpeg path, "raise": it cannot be run or times out);
\* envvar: each variable unset, naming no executable, or naming one; find: per
\* directory, no such directory, nothing found, a hit, or the command failing.
Host(os_nt, which, fixed, whereis, whichcmd, envvar, find) ==
    [os_nt |-> os_nt, which |-> which, fixed |-> fixed, whereis |-> whereis,
     whichcmd |-> whichcmd, envvar |-> envvar, find |-> find]

EnvUnset == [n \in {"FFMPEG_PATH", "FFMPEG_BINARY", "FFMPEG_EXECUTABLE"} |-> "unset"]

FindNone == [d \in {"/usr", "/opt", "/app"} |-> "nodir"]

BareHost(os_nt) == Host(os_nt, {}, "", "none", "none", EnvUnset, FindNone)

FixedPlain == "/usr/bin/ffmpeg"

FixedGlob == "/usr/local/Cellar/ffmpeg/7.0/bin/ffmpeg"

Hosts ==
    { BareHost(FALSE),
      BareHost(TRUE),
      [BareHost(FALSE) EXCEPT !.which = {"ffmpeg"}],
      [BareHost(TRUE) EXCEPT !.which = {"ffmpeg.exe"}],
      [BareHost(FALSE) EXCEPT !.fixed = FixedPlain],
      [BareHost(FALSE) EXCEPT !.fixed = FixedGlob],
      [BareHost(FALSE) EXCEPT !.whereis = "hit"],
      [BareHost(FALSE) EXCEPT !.whereis = "raise", !.whichcmd = "hit"],
      [BareHost(FALSE) EXCEPT !.whereis = "raise", !.whichcmd = "raise"],
      [BareHost(TRUE) EXCEPT !.whereis = "hit", !.find = [FindNone EXCEPT !["/usr"] = "hit"]],
      [BareHost(FALSE) EXCEPT !.envvar = [EnvUnset EXCEPT !["FFMPEG_PATH"] = "valid"]],
      [BareHost(TRUE) EXCEPT !.envvar = [EnvUnset EXCEPT !["FFMPEG_PATH"] = "invalid",
                                                        !["FFMPEG_EXECUTABLE"] = "valid"]],
      [BareHost(FALSE) EXCEPT !.envvar = [EnvUnset EXCEPT !["FFMPEG_BINARY"] = "valid",
                                                         !["FFMPEG_EXECUTABLE"] = "valid"]],
      [BareHost(FALSE) EXCEPT !.which = {"ffmpeg"},
                              !.envvar = [EnvUnset EXCEPT !["FFMPEG_PATH"] = "valid"]],
      [BareHost(FALSE) EXCEPT !.fixed = FixedPlain,
                              !.envvar = [EnvUnset EXCEPT !["FFMPEG_BINARY"] = "valid"]],
      [BareHost(FALSE) EXCEPT !.whichcmd = "hit",
                              !.envvar = [EnvUnset EXCEPT !["FFMPEG_PATH"] = "valid"]],
      [BareHost(FALSE) EXCEPT !.whereis = "raise", !.whichcmd = "raise",
                              !.envvar = [EnvUnset EXCEPT !["FFMPEG_PATH"] = "valid"],
                              !.find = [FindNone EXCEPT !["/usr"] = "hit"]],
      [BareHost(FALSE) EXCEPT !.find = [FindNone EXCEPT !["/usr"] = "none", !["/app"] = "hit"]],
      [BareHost(FALSE) EXCEPT !.find = [FindNone EXCEPT !["/usr"] = "raise", !["/opt"] = "hit"]],
      [BareHost(FALSE) EXCEPT !.whereis = "raise",
                              !.find = [d \in {"/usr", "/opt", "/app"} |-> "raise"]],
      [BareHost(FALSE) EXCEPT !.which = {"ffmpeg"}, !.fixed = FixedPlain, !.whereis = "hit",
                              !.find = [FindNone EXCEPT !["/opt"] = "hit"]] }

\* what one source of the search yields: the path it returns ("None" when it
\* finds nothing, "raise" when an exception leaves it) and the probes it made
Found(result, probes) == [result |-> result, probes |-> probes]

\* 1. shutil.which on the standard commands; the command name is returned
source_path(h) ==
    LET first == Found(IF "ffmpeg" \in h.which THEN "ffmpeg" ELSE "None",
                       <<"path:ffmpeg">>)
    IN  IF first.result # "None" \/ ~h.os_nt THEN first
        ELSE Found(IF "ffmpeg.exe" \in h.which THEN "ffmpeg.exe" ELSE "None",
                   first.probes \o <<"path:ffmpeg.exe">>)

\* 2. the fixed install paths, glob entries expanded, first executable file
source_fixed(h) ==
    Found(IF h.fixed = "" THEN "None" ELSE h.fixed, <<"fixed:search_paths">>)

\* the try block around one subprocess.run of _search_using_system_commands
system_command_try(outcome, path) ==
    CASE outcome = "raise" -> "raise"
      [] outcome = "hit" -> path
      [] OTHER -> "None"

\* mutant: the failure of the command is not caught
system_command_mutant_uncaught(outcome, path) == system_command_try(outcome, path)

\* one round of the loop: `except Exception` logs and goes on
system_command(outcome, path) ==
    IF system_command_try(outcome, path) = "raise" THEN "None"
    ELSE system_command_try(outcome, path)

\* 3. _search_using_system_commands: nothing on Windows, whereis then which
source_system(h) ==
    IF h.os_nt THEN Found("None", <<>>)
    ELSE LET w == system_command(h.whereis, "/usr/lib/ffmpeg-whereis/ffmpeg")
         IN  IF w # "None" THEN Found(w, <<"system:whereis">>)
             ELSE Found(system_command(h.whichcmd, "/usr/lib/ffmpeg-which/ffmpeg"),
                        <<"system:whereis", "system:which">>)

RECURSIVE ScanEnv(_, _, _)
ScanEnv(h, k, probes) ==
    IF k > Len(ffmpeg_env_names) THEN Found("None", probes)
    ELSE LET n == ffmpeg_env_names[k]
         IN  IF h.envvar[n] = "valid"
             THEN Found("/env/" \o n, Append(probes, "env:" \o n))
             ELSE ScanEnv(h, k + 1, Append(probes, "env:" \o n))

\* 4. the environment variables, in order, first one naming an executable
source_env(h) == ScanEnv(h, 1, <<>>)

RECURSIVE ScanDirs(_, _, _)
ScanDirs(h, k, probes) ==
    IF k > Len(search_dirs) THEN Found("None", probes)
    ELSE LET d == search_dirs[k]
         IN  IF h.find[d] = "nodir" THEN ScanDirs(h, k + 1, probes)
             ELSE IF h.find[d] = "hit"
                  THEN Found("/find" \o d \o "/bin/ffmpeg", Append(probes, "find:" \o d))
                  ELSE ScanDirs(h, k + 1, Append(probes, "find:" \o d))

\* 5. find -maxdepth 3 under each directory, Unix only; a failing find is
\* caught and the next directory tried
source_find(h) == IF h.os_nt THEN Found("None", <<>>) ELSE ScanDirs(h, 1, <<>>)

\* mutant: the variables are consulted before the system commands
search_order_mutant_env_early == <<"path", "fixed", "env", "system", "find">>

\* the order of the five blocks of _find_ffmpeg_executable
search_order == <<"path", "fixed", "system", "env", "find">>

source_step(name, h) ==
    CASE name = "path" -> source_path(h)
      [] name = "fixed" -> source_fixed(h)
      [] name = "system" -> source_system(h)
      [] name = "env" -> source_env(h)
      [] name = "find" -> source_find(h)

RECURSIVE RunSources(_, _, _)
RunSources(h, k, probes) ==
    IF k > Len(search_order) THEN Found("None", probes)
    ELSE LET r == source_step(search_order[k], h)
         IN  IF r.result # "None" THEN Found(r.result, probes \o r.probes)
             ELSE RunSources(h, k + 1, probes \o r.probes)

\* _find_ffmpeg_executable: each block returns at its first hit
_find_ffmpeg_executable(h) == RunSources(h, 1, <<>>)

\* FFmpegManager.__init__ and what clear_cache restores
LocFresh == [path |-> "None", attempted |-> FALSE, stamp |-> 0]

\* mutant: a search that found nothing does not count as a cached result
cache_valid_mutant_none_uncached(l, current_time) ==
    /\ l.path # "None"
    /\ current_time - l.stamp < SEARCH_CACHE_TIMEOUT_SECONDS

\* mutant: the cached result never expires
cache_valid_mutant_no_expiry(l, current_time) == l.attempted

\* ffmpeg_path: `self._search_attempted and current_time -
\* self._last_search_time < self.config.SEARCH_CACHE_TIMEOUT_SECONDS`
cache_valid(l, current_time) ==
    /\ l.attempted
    /\ current_time - l.stamp < SEARCH_CACHE_TIMEOUT_SECONDS

\* mutant: the path is forgotten, the search still counts as made
clear_cache_mutant_keeps_flag(l) == [l EXCEPT !.path = "None"]

\* clear_cache
clear_cache(l) == [path |-> "None", attempted |-> FALSE, stamp |-> 0]

\* is_available: `self.ffmpeg_path is not None`
is_available(path) ==
    IF path = "raise" THEN "raise" ELSE IF path # "None" THEN "True" ELSE "False"

(***************************************************************************)
(* The locator as a machine: reads of the path, clear_cache, the clock,    *)
(* and the machine changing underneath.                                    *)
(***************************************************************************)
LocTickStep == 1800

LocMaxTime == 7200

NoLCall == [op |-> "none", path |-> "", available |-> "", at |-> 0,
            discovered |-> FALSE, probes |-> <<>>, fresh |-> "",
            stood |-> FALSE, since |-> 0, before |-> "", cleared |-> FALSE]

NoDiscovery == [at |-> 0, result |-> "None", stands |-> FALSE, cleared |-> FALSE]

LocIdle ==
    /\ host = BareHost(FALSE)
    /\ loc = LocFresh
    /\ ltime = 0
    /\ lcall = NoLCall
    /\ disc = NoDiscovery

LocInit ==
    /\ host \in Hosts
    /\ loc = LocFresh
    /\ ltime = 0
    /\ lcall = NoLCall
    /\ disc = NoDiscovery

\* the property ffmpeg_path, read directly or through is_available; an
\* exception leaving the search would leave the cache as it was
ReadPath(op) ==
    LET current_time == ltime
        cached == cache_valid(loc, current_time)
        found == _find_ffmpeg_executable(host)
        path == IF cached THEN loc.path ELSE found.result
    IN  /\ loc' = IF cached \/ path = "raise" THEN loc
                  ELSE [path |-> found.result, attempted |-> TRUE,
                        stamp |-> current_time]
        /\ disc' = IF cached \/ path = "raise" THEN disc
                   ELSE [at |-> current_time, result |-> found.result,
                         stands |-> TRUE, cleared |-> FALSE]
        /\ lcall' = [op |-> op, path |-> path,
                     available |-> IF op = "is_available" THEN is_available(path) ELSE "",
                     at |-> current_time,
                     discovered |-> ~cached,
                     probes |-> IF cached THEN <<>> ELSE found.probes,
                     fresh |-> found.result,
                     stood |-> disc.stands,
                     since |-> current_time - disc.at,
                     before |-> disc.result,
                     cleared |-> disc.cleared]
        /\ UNCHANGED <<host, ltime>>
        /\ UNCHANGED locRest

\* FFmpegManager.clear_cache()
ClearCache ==
    /\ loc' = clear_cache(loc)
    /\ disc' = [disc EXCEPT !.stands = FALSE, !.cleared = TRUE]
    /\ lcall' = [NoLCall EXCEPT !.op = "clear_cache"]
    /\ UNCHANGED <<host, ltime>>
    /\ UNCHANGED locRest

\* time passes
LocTick ==
    /\ ltime + LocTickStep <= LocMaxTime
    /\ ltime' = ltime + LocTickStep
    /\ lcall' = NoLCall
    /\ UNCHANGED <<host, loc, disc>>
    /\ UNCHANGED locRest

\* the file system, PATH or the variables change
HostChange(h) ==
    /\ h # host
    /\ host' = h
    /\ lcall' = NoLCall
    /\ UNCHANGED <<loc, ltime, disc>>
    /\ UNCHANGED locRest

(***************************************************************************)
(* File locator (voice_file_resolver.py): resolve_voice_file_path and the  *)
(* ways each of its strategies can end.  A file is told by its kind:       *)
(* "missing", "dir", "small" (a regular file of at most                    *)
(* MIN_FILE_SIZE_BYTES bytes, 0 included), "ok", or "big" (a regular file  *)
(* above MAX_FILE_SIZE_MB MiB).                                            *)
(***************************************************************************)
\* mutant: two strategies change places in the list
resolver_strategies_mutant_swapped ==
    <<"official_convert", "base64_conversion", "file_service_registration",
      "url_download", "path_attribute", "file_attribute",
      "relative_path_search", "temp_directory_search",
      "system_directory_search", "filename_pattern_matching">>

\* resolve_voice_file_path: the list `strategies`, in priority order
resolver_strategies ==
    <<"official_convert", "base64_conversion", "file_service_registration",
      "path_attribute", "url_download", "file_attribute",
      "relative_path_search", "temp_directory_search",
      "system_directory_search", "filename_pattern_matching">>

\* what a strategy hands back: an exception, None, or a path with the kind of
\* file found there
Raises == [kind |-> "raise", file |-> ""]

ReturnsNone == [kind |-> "none", file |-> ""]

ReturnsPath(file) == [kind |-> "path", file |-> file]

\* The ways each strategy can end that the model tells apart.
\*  official_convert re-raises the platform's error, or passes on the path the
\*    platform (or the search of the data directories) gave;
\*  base64_conversion, file_service_registration, url_download catch every
\*    exception and return None, or return the file they wrote;
\*  path_attribute, file_attribute and the directory searches return a path
\*    that os.path.exists accepts: a file of any size, or a directory;
\*  relative_path_search, temp_directory_search (os.getcwd, tempfile.gettempdir)
\*    and filename_pattern_matching (get_astrbot_data_path) can raise;
\*  filename_pattern_matching returns regular files only.
strategy_outcomes(name) ==
    CASE name = "official_convert" ->
            {Raises, ReturnsPath("missing"), ReturnsPath("dir"), ReturnsPath("ok")}
      [] name = "base64_conversion" -> {ReturnsNone, ReturnsPath("small")}
      [] name = "file_service_registration" -> {ReturnsNone, ReturnsPath("ok")}
      [] name = "path_attribute" -> {ReturnsNone, ReturnsPath("dir"), ReturnsPath("big")}
      [] name = "url_download" -> {ReturnsNone, ReturnsPath("small")}
      [] name = "file_attribute" -> {ReturnsNone, ReturnsPath("dir"), ReturnsPath("ok")}
      [] name = "relative_path_search" -> {Raises, ReturnsNone, ReturnsPath("ok")}
      [] name = "temp_directory_search" -> {Raises, ReturnsNone, ReturnsPath("ok")}
      [] name = "system_directory_search" -> {ReturnsNone, ReturnsPath("ok")}
      [] name = "filename_pattern_matching" ->
            {Raises, ReturnsNone, ReturnsPath("small"), ReturnsPath("ok")}

StrategyNames == {resolver_strategies[k] : k \in 1..Len(resolver_strategies)}

\* the voice messages: how each strategy would end on the message, built one
\* strategy at a time
RECURSIVE VoicesOver(_)
VoicesOver(k) ==
    IF k = 0 THEN {<<>>}
    ELSE {v @@ (resolver_strategies[k] :> o) :
              v \in VoicesOver(k - 1), o \in strategy_outcomes(resolver_strategies[k])}

Voices == VoicesOver(Len(resolver_strategies))

\* `result and os.path.exists(result)`
resolver_accepts(r) == r.kind = "path" /\ r.file # "missing"

\* mutant: the exception of a strategy leaves resolve_voice_file_path
resolver_on_exception_mutant_propagate == "raise"

\* the loop's `except Exception`: log a warning and `continue`
resolver_on_exception == "continue"

NoVoice == [n \in StrategyNames |-> ReturnsNone]

NoResolved == [kind |-> "pending", by |-> "", file |-> ""]

\* the strategies that write the file they return: the decoded base64
\* payload, the download from the file service, the download of voice.url
writes_scratch(name) ==
    name \in {"base64_conversion", "file_service_registration", "url_download"}

\* whether the file a strategy wrote is handed to a TempFileManager: the
\* locator holds no manager and calls none
resolver_tracks(name) == FALSE

NoScratch == [files |-> {}, reclaimed |-> FALSE]

ResIdle ==
    /\ voice = NoVoice
    /\ rpc = "idle"
    /\ rk = 1
    /\ rret = NoResolved
    /\ rlog = <<>>
    /\ scratch = NoScratch

ResInit ==
    /\ voice \in Voices
    /\ rpc = "loop"
    /\ rk = 1
    /\ rret = NoResolved
    /\ rlog = <<>>
    /\ scratch = NoScratch

\* the for loop moves to the next strategy, or falls out of the list
ResAdvance ==
    IF rk < Len(resolver_strategies)
    THEN rk' = rk + 1 /\ rpc' = "loop"
    ELSE rk' = rk /\ rpc' = "exhausted"

\* one round of the loop: `result = await strategy_func(voice)`, the check,
\* and the except clause
ResTry ==
    /\ rpc = "loop"
    /\ LET name == resolver_strategies[rk]
           r == voice[name]
       IN  /\ rlog' = Append(rlog, [s |-> name, kind |-> r.kind, file |-> r.file])
           /\ scratch' = IF r.kind = "path" /\ r.file # "missing" /\ writes_scratch(name)
                         THEN [scratch EXCEPT !.files = @ \cup {name}]
                         ELSE scratch
           /\ IF r.kind = "raise"
              THEN IF resolver_on_exception = "continue"
                   THEN ResAdvance /\ rret' = rret
                   ELSE /\ rpc' = "done"
                        /\ rk' = rk
                        /\ rret' = [kind |-> "raise", by |-> name, file |-> ""]
              ELSE IF resolver_accepts(r)
                   THEN /\ rpc' = "done"
                        /\ rk' = rk
                        /\ rret' = [kind |-> "path", by |-> name, file |-> r.file]
                   ELSE ResAdvance /\ rret' = rret
    /\ UNCHANGED voice
    /\ UNCHANGED resRest

\* `return None` after the loop
ResExhausted ==
    /\ rpc = "exhausted"
    /\ rpc' = "done"
    /\ rret' = [kind |-> "None", by |-> "", file |-> ""]
    /\ UNCHANGED <<voice, rk, rlog, scratch>>
    /\ UNCHANGED resRest

\* the message is done with and VoiceProcessingService.cleanup_resources
\* runs: cleanup_all removes what a manager tracks
ResReclaim ==
    /\ rpc = "done"
    /\ ~scratch.reclaimed
    /\ scratch' = [files |-> {n \in scratch.files : ~resolver_tracks(n)},
                   reclaimed |-> TRUE]
    /\ UNCHANGED <<voice, rpc, rk, rret, rlog>>
    /\ UNCHANGED resRest

(***************************************************************************)
(* Temp storage manager (core/temp_file_manager.py).  Paths are numbered   *)
(* in the order uuid4 names them; a file on disk has its creation time.    *)
(* os.remove of an existing scratch file is taken to succeed.              *)
(***************************************************************************)
CLEANUP_INTERVAL_MINUTES == 30

\* TempFileConfig.MAX_TEMP_FILES as configured for the model (default 100)
MAX_TEMP_FILES == 2

\* how many scratch paths one run hands out
MaxTmpPaths == 3

TmpTickStep == 1000

TmpMaxTime == 3000

TmpPaths == 1..MaxTmpPaths

NoFile == [exists |-> FALSE, ctime |-> 0]

NewFile(t) == [exists |-> TRUE, ctime |-> t]

\* list.remove(x): the first occurrence goes
RECURSIVE RemoveFirst(_, _)
RemoveFirst(s, x) ==
    IF s = <<>> THEN <<>>
    ELSE IF Head(s) = x THEN Tail(s)
    ELSE <<Head(s)>> \o RemoveFirst(Tail(s), x)

InSeq(s, x) == \E i \in 1..Len(s) : s[i] = x

\* cleanup_file: os.remove when the file exists
cleanup_file(files, p) == [files EXCEPT ![p] = NoFile]

\* the manager's list and the disk together
TmpState(list, files) == [list |-> list, files |-> files]

\* mutant: the loop runs over the list it is removing from, so that the
\* element after each removed one is skipped
RECURSIVE CleanupLive(_, _, _)
CleanupLive(list, files, i) ==
    IF i > Len(list) THEN TmpState(list, files)
    ELSE CleanupLive(RemoveFirst(list, list[i]), cleanup_file(files, list[i]), i + 1)

cleanup_all_mutant_live_iteration(list, files) == CleanupLive(list, files, 1)

\* cleanup_all: `for file_path in self._temp_files[:]`
RECURSIVE CleanupCopy(_, _, _)
CleanupCopy(copy, list, files) ==
    IF copy = <<>> THEN TmpState(list, files)
    ELSE CleanupCopy(Tail(copy), RemoveFirst(list, Head(copy)),
                     cleanup_file(files, Head(copy)))

cleanup_all(list, files) == CleanupCopy(list, list, files)

\* _cleanup_old_files: over a copy of the list, a file older than the interval
\* is removed and untracked, a path without a file is untracked
RECURSIVE SweepCopy(_, _, _, _)
SweepCopy(copy, list, files, t) ==
    IF copy = <<>> THEN TmpState(list, files)
    ELSE LET p == Head(copy)
         IN  IF files[p].exists
             THEN IF t - files[p].ctime > CLEANUP_INTERVAL_MINUTES * 60
                  THEN SweepCopy(Tail(copy), RemoveFirst(list, p),
                                 cleanup_file(files, p), t)
                  ELSE SweepCopy(Tail(copy), list, files, t)
             ELSE SweepCopy(Tail(copy), RemoveFirst(list, p), files, t)

\* mutant: the sweep takes every tracked file, whatever its age
_cleanup_old_files_mutant_all(list, files, t) == cleanup_all(list, files)

_cleanup_old_files(list, files, t) == SweepCopy(list, list, files, t)

\* _check_and_cleanup: the count trigger, then the interval trigger; the
\* result holds the state after it and the new _last_cleanup
_check_and_cleanup(list, files, lastc, t) ==
    LET a == IF Len(list) > MAX_TEMP_FILES
             THEN _cleanup_old_files(list, files, t)
             ELSE TmpState(list, files)
        due == t - lastc > CLEANUP_INTERVAL_MINUTES * 60
        b == IF due THEN _cleanup_old_files(a.list, a.files, t) ELSE a
    IN  [list |-> b.list, files |-> b.files, lastc |-> IF due THEN t ELSE lastc]

NoTCall ==
    [op |-> "none", path |-> 0, how |-> "", before |-> <<>>, had |-> {}, scoped |-> {},
     files |-> <<>>, lastc |-> 0]

TmpIdle ==
    /\ tfiles = [p \in TmpPaths |-> NoFile]
    /\ tracked = <<>>
    /\ tlast = 0
    /\ ttime = 0
    /\ scopes = {}
    /\ holders = {}
    /\ tnext = 1
    /\ tcall = NoTCall

\* with temp_manager.temp_file(...): the path is named and tracked; no file is
\* created
ScopeEnter ==
    /\ tnext \in TmpPaths
    /\ tracked' = Append(tracked, tnext)
    /\ scopes' = scopes \cup {tnext}
    /\ tnext' = tnext + 1
    /\ tcall' = [NoTCall EXCEPT !.op = "scope_enter", !.path = tnext]
    /\ UNCHANGED <<tfiles, tlast, ttime, holders>>
    /\ UNCHANGED tmpRest

\* the holder of a path writes its file: the body of a scope, or the
\* conversion writing the output path create_temp_file gave it
HolderWrite(p) ==
    /\ p \in scopes \cup holders
    /\ ~tfiles[p].exists
    /\ tfiles' = [tfiles EXCEPT ![p] = NewFile(ttime)]
    /\ tcall' = NoTCall
    /\ UNCHANGED <<tracked, tlast, ttime, scopes, holders, tnext>>
    /\ UNCHANGED tmpRest

\* the conversion removes the file at its output path itself (convert_audio's
\* os.remove of the output path)
HolderRemove(p) ==
    /\ p \in holders
    /\ tfiles[p].exists
    /\ tfiles' = [tfiles EXCEPT ![p] = NoFile]
    /\ tcall' = NoTCall
    /\ UNCHANGED <<tracked, tlast, ttime, scopes, holders, tnext>>
    /\ UNCHANGED tmpRest

\* convert_to_supported_format returns or raises: the conversion is over
HolderDone(p) ==
    /\ p \in holders
    /\ holders' = holders \ {p}
    /\ tcall' = NoTCall
    /\ UNCHANGED <<tfiles, tracked, tlast, ttime, scopes, tnext>>
    /\ UNCHANGED tmpRest

\* the ways a with block is left
ScopeExits == {"completed", "exception", "cancelled"}

\* mutant: the release sits after the yield instead of in a finally clause
scope_exit_releases_mutant_no_finally(how) == how = "completed"

\* temp_file: the release is the generator's finally clause, which
\* contextmanager runs however the with block is left
scope_exit_releases(how) == TRUE

\* the scope's finally clause: cleanup_file, and the path leaves the list if
\* it is still in it
ScopeExit(p, how) ==
    /\ p \in scopes
    /\ IF scope_exit_releases(how)
       THEN /\ tfiles' = cleanup_file(tfiles, p)
            /\ tracked' = IF InSeq(tracked, p) THEN RemoveFirst(tracked, p) ELSE tracked
       ELSE UNCHANGED <<tfiles, tracked>>
    /\ scopes' = scopes \ {p}
    /\ tcall' = [NoTCall EXCEPT !.op = "scope_exit", !.path = p, !.how = how,
                                !.before = tracked,
                                !.had = IF tfiles[p].exists THEN {p} ELSE {}]
    /\ UNCHANGED <<tlast, ttime, holders, tnext>>
    /\ UNCHANGED tmpRest

\* create_temp_file: an empty file is created and tracked, then
\* _check_and_cleanup runs
CreateTempFile ==
    /\ tnext \in TmpPaths
    /\ LET r == _check_and_cleanup(Append(tracked, tnext),
                                   [tfiles EXCEPT ![tnext] = NewFile(ttime)],
                                   tlast, ttime)
       IN  /\ tracked' = r.list
           /\ tfiles' = r.files
           /\ tlast' = r.lastc
    /\ tnext' = tnext + 1
    /\ holders' = holders \cup {tnext}
    /\ tcall' = [NoTCall EXCEPT !.op = "create_temp_file", !.path = tnext,
                                !.before = tracked, !.files = tfiles, !.lastc = tlast]
    /\ UNCHANGED <<ttime, scopes>>
    /\ UNCHANGED tmpRest

\* cleanup_all()
CleanupAll ==
    /\ LET r == cleanup_all(tracked, tfiles)
       IN  tracked' = r.list /\ tfiles' = r.files
    /\ tcall' = [NoTCall EXCEPT !.op = "cleanup_all", !.before = tracked,
                                !.had = {p \in TmpPaths : InSeq(tracked, p) /\ tfiles[p].exists},
                                !.scoped = scopes]
    /\ UNCHANGED <<tlast, ttime, scopes, holders, tnext>>
    /\ UNCHANGED tmpRest

\* time passes
TmpTick ==
    /\ ttime + TmpTickStep <= TmpMaxTime
    /\ ttime' = ttime + TmpTickStep
    /\ tcall' = NoTCall
    /\ UNCHANGED <<tfiles, tracked, tlast, scopes, holders, tnext>>
    /\ UNCHANGED tmpRest

(***************************************************************************)
(* Tasks sharing one VoiceProcessingService                                *)
(* (services/voice_processing_service.py)                                  *)
(***************************************************************************)
\* process_voice_file returns to its task: convert_to_supported_format gave
\* the output path back (the file at it is the converted audio), or raised
ServiceReturns(p) ==
    /\ p \in holders
    /\ holders' = holders \ {p}
    /\ handed' = IF tfiles[p].exists THEN handed \cup {p} ELSE handed
    /\ tcall' = NoTCall
    /\ UNCHANGED <<tfiles, tracked, tlast, ttime, scopes, tnext>>
    /\ UNCHANGED sharedRest

\* the task hands the path to the transcription provider, which opens the
\* file (stt_provider.get_text)
Transcribe(p) ==
    /\ p \in handed
    /\ handed' = handed \ {p}
    /\ tcall' = [NoTCall EXCEPT !.op = "transcribe", !.path = p,
                                !.had = IF tfiles[p].exists THEN {p} ELSE {}]
    /\ UNCHANGED <<tfiles, tracked, tlast, ttime, scopes, holders, tnext>>
    /\ UNCHANGED sharedRest

(***************************************************************************)
(* The permission service (services/permission_service.py)                 *)
(***************************************************************************)
PermActions == {"recognition", "reply"}

\* @cache_result(ttl_seconds=60) on _check_group_permission
perm_ttl_seconds == 60

PermTickStep == 30
PermMaxTime == 60

\* _check_group_permission, without the cache
_check_group_permission(p, group_id, action) ==
    IF group_id = "" THEN FALSE
    ELSE IF action \notin PermActions THEN FALSE
    ELSE IF ~p.enabled[action] THEN FALSE
    ELSE IF group_id \in p.blacklist[action] THEN FALSE
    ELSE IF p.whitelist[action] # {}
         THEN group_id \in p.whitelist[action]
         ELSE TRUE

\* the body of update_group_permission: the lists afterwards and whether
\* PermissionError is raised; with exclusive the group also leaves the
\* opposite list when it is added to one
update_lists(p, group_id, action, permission_type, allowed, exclusive) ==
    LET bl == p.blacklist[action]
        wl == p.whitelist[action]
        with(b, w) == [perm |-> [p EXCEPT !.blacklist[action] = b, !.whitelist[action] = w],
                       raised |-> FALSE]
    IN  IF action \notin PermActions THEN [perm |-> p, raised |-> TRUE]
        ELSE IF permission_type = "blacklist"
             THEN IF allowed
                  THEN with(bl \ {group_id}, wl)
                  ELSE with(bl \cup {group_id},
                            IF exclusive THEN wl \ {group_id} ELSE wl)
        ELSE IF permission_type = "whitelist"
             THEN IF allowed
                  THEN with(IF exclusive THEN bl \ {group_id} ELSE bl,
                            wl \cup {group_id})
                  ELSE with(bl, wl \ {group_id})
        ELSE [perm |-> p, raised |-> TRUE]

\* mutant: a group added to one list stays in the other
update_group_permission_mutant_keep(p, group_id, action, permission_type, allowed) ==
    update_lists(p, group_id, action, permission_type, allowed, FALSE)

\* update_group_permission
update_group_permission(p, group_id, action, permission_type, allowed) ==
    update_lists(p, group_id, action, permission_type, allowed, TRUE)

\* cache_key = f"{func.__name__}:{hash(str(args) + str(kwargs))}", the
\* arguments being the service, the group and the action
perm_cache_key(group_id, action) == <<group_id, action>>

\* the group the checks and the updates are made for; the other group is in
\* the lists only through the configuration
CheckGroups == {"g1"}

PermKeys == {perm_cache_key(g, a) : g \in CheckGroups, a \in PermActions}

\* no entry under a key of the cache
NoPermEntry == [result |-> FALSE, time |-> -1]

\* `cache_key in cache` and `current_time - cached_time < ttl_seconds`
perm_cache_fresh(entry, current_time) ==
    /\ entry # NoPermEntry
    /\ current_time - entry.time < perm_ttl_seconds

\* cache[cache_key] = (result, current_time), then the expired keys are deleted
perm_cache_store(c, key, result, current_time) ==
    LET c1 == [c EXCEPT ![key] = [result |-> result, time |-> current_time]]
    IN  [k \in DOMAIN c1 |->
            IF c1[k] # NoPermEntry /\ current_time - c1[k].time >= perm_ttl_seconds
            THEN NoPermEntry ELSE c1[k]]

NoPCall ==
    [op |-> "none", mtype |-> "", group |-> "", action |-> "", ptype |-> "",
     allowed |-> FALSE, result |-> FALSE, hit |-> FALSE, raised |-> FALSE,
     moved |-> FALSE]

\* the configurations a service is constructed with (Group_Chat_Settings)
PermConfigs ==
    LET none == [a \in PermActions |-> {}]
        on == [a \in PermActions |-> TRUE]
    IN  { [enabled |-> on, blacklist |-> none, whitelist |-> none],
          [enabled |-> [on EXCEPT !["reply"] = FALSE], blacklist |-> none,
           whitelist |-> [none EXCEPT !["recognition"] = {"g2"}]],
          [enabled |-> on,
           blacklist |-> [none EXCEPT !["reply"] = {"g1"}],
           whitelist |-> [none EXCEPT !["reply"] = {"g1"}]] }

PermInit ==
    /\ perm \in PermConfigs
    /\ pcache = [k \in PermKeys |-> NoPermEntry]
    /\ ptime = 0
    /\ pcall = NoPCall

\* the service is not in use (the other specifications)
PermIdle ==
    /\ perm = [enabled |-> [a \in PermActions |-> TRUE],
               blacklist |-> [a \in PermActions |-> {}],
               whitelist |-> [a \in PermActions |-> {}]]
    /\ pcache = [k \in PermKeys |-> NoPermEntry]
    /\ ptime = 0
    /\ pcall = NoPCall

SvcIdle == handed = {} /\ PermIdle

MessageTypes == {"FRIEND_MESSAGE", "GROUP_MESSAGE", "OTHER_MESSAGE"}

\* can_process_voice / can_generate_reply: a private message is allowed, a
\* group message goes through the cached _check_group_permission, any other
\* message type is refused
PermCheck(op, message_type, group_id) ==
    LET action == IF op = "can_process_voice" THEN "recognition" ELSE "reply"
        key == perm_cache_key(group_id, action)
        hit == message_type = "GROUP_MESSAGE" /\ perm_cache_fresh(pcache[key], ptime)
        result == IF message_type = "FRIEND_MESSAGE" THEN TRUE
                  ELSE IF message_type = "GROUP_MESSAGE"
                       THEN IF hit THEN pcache[key].result
                            ELSE _check_group_permission(perm, group_id, action)
                  ELSE FALSE
    IN  /\ pcache' = IF message_type = "GROUP_MESSAGE" /\ ~hit
                     THEN perm_cache_store(pcache, key, result, ptime)
                     ELSE pcache
        /\ pcall' = [NoPCall EXCEPT !.op = op, !.mtype = message_type,
                                    !.group = group_id, !.action = action,
                                    !.result = result, !.hit = hit]
        /\ UNCHANGED <<perm, ptime>>
        /\ UNCHANGED permRest

\* a call of update_group_permission
PermUpdate(group_id, action, permission_type, allowed) ==
    LET r == update_group_permission(perm, group_id, action, permission_type, allowed)
        other == IF permission_type = "blacklist" THEN "whitelist" ELSE "blacklist"
    IN  /\ perm' = r.perm
        /\ pcall' = [NoPCall EXCEPT !.op = "update", !.group = group_id,
                                    !.action = action, !.ptype = permission_type,
                                    !.allowed = allowed, !.raised = r.raised,
                                    !.moved = /\ ~r.raised
                                              /\ group_id \in perm[other][action]
                                              /\ group_id \notin r.perm[other][action]]
        /\ UNCHANGED <<pcache, ptime>>
        /\ UNCHANGED permRest

\* time passes
PermTick ==
    /\ ptime + PermTickStep <= PermMaxTime
    /\ ptime' = ptime + PermTickStep
    /\ pcall' = NoPCall
    /\ UNCHANGED <<perm, pcache>>
    /\ UNCHANGED permRest

\* the components next to the detector and the pipeline at rest
AuxIdle == LocIdle /\ ResIdle /\ TmpIdle /\ SvcIdle

(***************************************************************************)
(* Conversion strategies (core/conversion_strategies.py)                   *)
(***************************************************************************)
\* mutant: two strategies change places in the list
strategies_mutant_swapped == <<"SilkDecoderExe", "PyDub", "FFmpeg", "Silk", "Fallback">>

\* ConversionStrategyManager.__init__: self.strategies, in priority order
strategies == <<"SilkDecoderExe", "FFmpeg", "PyDub", "Silk", "Fallback">>

\* what the host offers a job: os.name == 'nt', FFmpegManager.is_available(),
\* `ffprobe -version` succeeding, and PILK_AVAILABLE
Envs == [os_nt : BOOLEAN, ffmpeg : BOOLEAN, ffprobe : BOOLEAN, pilk : BOOLEAN]

\* self.audio_converter_instance._find_silk_decoder_executable(): the class
\* AudioConverter of covert.py defines no such method, the call raises
\* AttributeError
find_silk_decoder_executable == "raise"

SilkDecoderExe_can_handle(e, input_format, output_format) ==
    IF ~e.os_nt THEN FALSE
    ELSE IF input_format = "silk" /\ output_format = "mp3"
         THEN (IF find_silk_decoder_executable = "raise" THEN FALSE ELSE TRUE)
         ELSE FALSE

FFmpeg_can_handle(e, input_format, output_format) ==
    LET supported_formats == {"amr", "silk", "mp3", "wav", "ogg", "flac", "m4a", "mp4"}
    IN  IF ~e.ffmpeg THEN FALSE
        ELSE input_format \in supported_formats /\ output_format \in supported_formats

PyDub_can_handle(e, input_format, output_format) ==
    IF ~e.ffprobe
    THEN LET basic_formats == {"wav"}
         IN  input_format \in basic_formats /\ output_format \in basic_formats
    ELSE LET supported_formats == {"mp3", "wav", "ogg", "flac", "amr"}
         IN  input_format \in supported_formats /\ output_format \in supported_formats

Silk_can_handle(e, input_format, output_format) ==
    IF ~e.pilk THEN FALSE
    ELSE input_format = "silk" /\ output_format = "mp3"

Fallback_can_handle(e, input_format, output_format) == TRUE

can_handle(name, e, input_format, output_format) ==
    CASE name = "SilkDecoderExe" -> SilkDecoderExe_can_handle(e, input_format, output_format)
      [] name = "FFmpeg" -> FFmpeg_can_handle(e, input_format, output_format)
      [] name = "PyDub" -> PyDub_can_handle(e, input_format, output_format)
      [] name = "Silk" -> Silk_can_handle(e, input_format, output_format)
      [] name = "Fallback" -> Fallback_can_handle(e, input_format, output_format)

\* mutant: a failed attempt is never repeated
max_retries_mutant_none(name) == 0

\* @retry_on_failure(max_retries=...) on each strategy's convert
max_retries(name) ==
    CASE name = "SilkDecoderExe" -> 1
      [] name = "PyDub" -> 2
      [] name = "Silk" -> 2
      [] OTHER -> 0

\* retry_on_failure: `delay * (2 ** attempt)` seconds are slept before the
\* next attempt (delay = 1.0, exponential_backoff = True)
retry_delay(attempt) == 1 * 2^attempt

\* mutant: every exception of the worker is answered with False
PyDub_on_exception_mutant_swallow(outcome) == "False"

\* PyDubStrategy.convert's except clause: an error message naming ffprobe or
\* ffmpeg returns False, any other error raises AudioConversionError
PyDub_on_exception(outcome) ==
    IF outcome = "tool_error" THEN "False" ELSE "raise"

\* FallbackStrategy.convert: fallback_methods, in order
fallback_methods ==
    <<"generic", "wav", "raw_multi_rates", "amr", "maximum_compatibility">>

\* how a worker thread's run can end: it returns, or raises an error whose
\* message names ffmpeg/ffprobe, or raises another error.  The last fallback
\* method catches every exception itself.
ThreadOutcomes(name, method) ==
    CASE name = "PyDub" -> {"ok", "tool_error", "error"}
      [] name = "Silk" -> {"ok", "error"}
      [] name = "Fallback" ->
            IF fallback_methods[method] = "maximum_compatibility"
            THEN {"ok"} ELSE {"ok", "error"}

\* FallbackStrategy._validate_file
fallback_validate_file(f) ==
    IF f.kind = "missing" THEN FALSE
    ELSE IF f.kind # "file" THEN FALSE
    ELSE IF f.size = 0 THEN FALSE
    ELSE IF ~f.readable THEN FALSE
    ELSE IF Len(ReadHeader(f, 10)) < 5 THEN FALSE
    ELSE TRUE

\* os.path.exists(output_path) and os.path.getsize(output_path) > 0
output_valid(o) == o = "valid"

\* mutant: the strategy's word is taken for it
conversion_valid_mutant_trusting(success, o) == success = "True"

\* convert_audio: success and os.path.exists(...) and os.path.getsize(...) > 0
conversion_valid(success, o) == success = "True" /\ output_valid(o)

\* if os.path.exists(output_path): os.remove(output_path)
remove_output(o) == "absent"

\* mutant: the old file at the output path is left for the strategy to find
stale_cleanup_mutant_keep(o) == o

\* convert_audio before `strategy.convert`: the old output file is removed
stale_cleanup(o) == remove_output(o)

\* mutant: the except clause leaves the partial output in place
except_cleanup_mutant_keep(o) == o

\* convert_audio's except clause: the output path after its cleanup
except_cleanup(o) == remove_output(o)

\* exceptions.py: VoiceToTextError and its subclasses
VoiceToTextErrors ==
    {"VoiceToTextError", "AudioConversionError", "AudioFormatError", "FileNotFoundError",
     "FileValidationError", "STTProviderError", "PermissionError", "ConfigurationError",
     "FFmpegNotFoundError", "ConversionTimeoutError"}

\* what one convert_audio_async call came to: the exit code communicate()
\* saw (-1: none), the exception that left the call, the bytes of stderr its
\* message carries and the bytes of stderr the tool wrote
NoFf == [code |-> -1, raised |-> "", stderr |-> 0, full |-> 0]

\* async_operation_handler: a VoiceToTextError passes, any other exception
\* is wrapped in a VoiceToTextError whose message holds str(e)
async_operation_handler(e) ==
    IF e.raised \in VoiceToTextErrors THEN e ELSE [e EXCEPT !.raised = "VoiceToTextError"]

STDERR_LIMIT == 500

\* how much the tool wrote to stderr
StderrLens == {0, STDERR_LIMIT, STDERR_LIMIT + 1}

\* mutant: the exit code is not looked at
exit_ok_mutant_any(returncode) == TRUE

\* `if process.returncode != 0: raise`
exit_ok(returncode) == returncode = 0

\* convert_audio_async once communicate() has returned
after_exit(returncode, stderr_len) ==
    IF exit_ok(returncode)
    THEN [NoFf EXCEPT !.code = returncode, !.full = stderr_len]
    ELSE async_operation_handler(
             [code |-> returncode, raised |-> "SubprocessError",
              stderr |-> Min(stderr_len, STDERR_LIMIT), full |-> stderr_len])

\* raise ConversionTimeoutError("FFmpeg转换超时"), through the decorator
timeout_error == async_operation_handler([NoFf EXCEPT !.raised = "ConversionTimeoutError"])

\* create_subprocess_exec fails with an OSError, through the decorator
spawn_error == async_operation_handler([NoFf EXCEPT !.raised = "OSError"])

\* mutant: after the grace period the error is raised without a kill
on_grace_timeout_mutant_raise == "raise"

\* the inner `except asyncio.TimeoutError`: process.kill(), then
\* `await process.wait()`
on_grace_timeout == "kill"

\* mutant: the timeout is raised at once, the subprocess is left running
after_timeout_mutant_abandon == "abandon"

\* convert_audio_async on asyncio.TimeoutError: process.terminate() and a
\* bounded wait come first
after_timeout == "terminate"

(***************************************************************************)
(* One voice message: process_voice_file -> convert_to_supported_format    *)
(* -> ConversionStrategyManager.convert_audio -> a strategy's convert      *)
(***************************************************************************)
InputPath == "a.amr"

ConvIdle == [phase |-> "idle", attempt |-> 0, method |-> 1, slept |-> <<>>]

NoRet == [kind |-> "none", error |-> ""]

Raise(error) == [kind |-> "raise", error |-> error]

Event(ev, s, val, o, why) ==
    [ev |-> ev, s |-> s, val |-> val, out |-> o, why |-> why, ff |-> NoFf,
     attempt |-> 0, slept |-> <<>>]

CurrentStrategy == strategies[idx]

\* the for loop of convert_audio moves on to the next strategy, or falls out
Advance ==
    IF idx < Len(strategies)
    THEN idx' = idx + 1 /\ pc' = "eng_can"
    ELSE idx' = idx /\ pc' = "eng_exhausted"

\* `can_handle = await strategy.can_handle(...)`, and `continue` when false
EngCanHandle ==
    /\ pc = "eng_can"
    /\ LET h == can_handle(CurrentStrategy, env, job.input_format, "mp3")
       IN  /\ log' = Append(log, Event("can_handle", CurrentStrategy,
                                       IF h THEN "True" ELSE "False", out, ""))
           /\ IF h THEN pc' = "eng_clean" /\ idx' = idx ELSE Advance
    /\ UNCHANGED <<env, job, out, conv, writers, cres, engret, ret>>
    /\ UNCHANGED <<detVars, probe, auxVars>>

\* the stale output file is removed, then `await strategy.convert(...)` begins
EngCleanStale ==
    /\ pc = "eng_clean"
    /\ out' = stale_cleanup(out)
    /\ pc' = "convert"
    /\ conv' = [phase |-> IF CurrentStrategy = "Fallback" THEN "validate" ELSE "ready",
                attempt |-> 0, method |-> 1, slept |-> <<>>]
    /\ log' = Append(log, Event("convert", CurrentStrategy, "", out', ""))
    /\ UNCHANGED <<env, job, idx, writers, cres, engret, ret>>
    /\ UNCHANGED <<detVars, probe, auxVars>>

\* the strategy's convert returns r or raises (r = "raise") because of `why`,
\* the output path holding o at that moment; ff is what its
\* convert_audio_async call came to.  The event also keeps which attempt of
\* retry_on_failure this was and the sleeps that came before it.
ReturnAfter(r, o, why, ff) ==
    /\ cres' = r
    /\ conv' = ConvIdle
    /\ pc' = IF r = "raise" THEN "eng_except" ELSE "eng_verify"
    /\ log' = Append(log, [Event(IF r = "raise" THEN "raised" ELSE "converted",
                                 CurrentStrategy, r, o, why)
                          EXCEPT !.ff = ff, !.attempt = conv.attempt + 1,
                                 !.slept = conv.slept])

ReturnFromConvert(r, o, why) == ReturnAfter(r, o, why, NoFf)

\* retry_on_failure: another attempt after the sleep, or the last exception
RetryOrRaise(o, why) ==
    IF conv.attempt < max_retries(CurrentStrategy)
    THEN /\ conv' = [conv EXCEPT !.attempt = conv.attempt + 1, !.phase = "ready",
                                 !.slept = Append(conv.slept, retry_delay(conv.attempt))]
         /\ UNCHANGED <<pc, cres, log>>
    ELSE ReturnFromConvert("raise", o, why)

\* FallbackStrategy.convert validates the input first
FallbackValidate ==
    /\ pc = "convert" /\ conv.phase = "validate"
    /\ IF fallback_validate_file(fs[InputPath])
       THEN conv' = [conv EXCEPT !.phase = "ready"] /\ UNCHANGED <<pc, cres, log>>
       ELSE ReturnFromConvert("raise", out, "input_invalid")
    /\ UNCHANGED <<env, job, idx, out, writers, engret, ret>>
    /\ UNCHANGED <<detVars, probe, auxVars>>

\* loop.run_in_executor / asyncio.to_thread: a worker thread starts on the job
ThreadStart ==
    /\ pc = "convert" /\ conv.phase = "ready"
    /\ CurrentStrategy \in {"SilkDecoderExe", "PyDub", "Silk", "Fallback"}
    /\ conv' = [conv EXCEPT !.phase = "running"]
    /\ writers' = writers \cup {CurrentStrategy}
    /\ UNCHANGED <<env, pc, job, idx, out, cres, engret, ret, log>>
    /\ UNCHANGED <<detVars, probe, auxVars>>

\* a live worker thread or subprocess writes the output path: a partial or
\* empty file, or a complete one
WorkerWrite(o) ==
    /\ writers # {}
    /\ o # out
    /\ out' = o
    /\ UNCHANGED <<env, pc, job, idx, conv, writers, cres, engret, ret, log>>
    /\ UNCHANGED <<detVars, probe, auxVars>>

\* PyDubStrategy.convert: the awaited thread ends
PyDubFinish(outcome) ==
    /\ pc = "convert" /\ conv.phase = "running" /\ CurrentStrategy = "PyDub"
    /\ writers' = writers \ {"PyDub"}
    /\ CASE outcome = "ok" -> ReturnFromConvert("True", out, "ok")
         [] outcome # "ok" /\ PyDub_on_exception(outcome) = "False" ->
                ReturnFromConvert("False", out, outcome)
         [] outcome # "ok" /\ PyDub_on_exception(outcome) = "raise" ->
                RetryOrRaise(out, "retries_exhausted")
    /\ UNCHANGED <<env, job, idx, out, engret, ret>>
    /\ UNCHANGED <<detVars, probe, auxVars>>

\* SilkStrategy.convert: the awaited decode and encode threads end
SilkFinish(outcome) ==
    /\ pc = "convert" /\ conv.phase = "running" /\ CurrentStrategy = "Silk"
    /\ writers' = writers \ {"Silk"}
    /\ CASE outcome = "ok" -> ReturnFromConvert("True", out, "ok")
         [] outcome = "error" -> RetryOrRaise(out, "retries_exhausted")
    /\ UNCHANGED <<env, job, idx, out, engret, ret>>
    /\ UNCHANGED <<detVars, probe, auxVars>>

\* FallbackStrategy.convert: one sub-method's thread ends; its output is
\* validated, a raising sub-method's output is removed
FallbackFinish(outcome) ==
    /\ pc = "convert" /\ conv.phase = "running" /\ CurrentStrategy = "Fallback"
    /\ writers' = writers \ {"Fallback"}
    /\ LET o == IF outcome = "ok" THEN out ELSE remove_output(out)
       IN  /\ out' = o
           /\ IF outcome = "ok" /\ output_valid(out)
              THEN ReturnFromConvert("True", o, "ok")
              ELSE IF conv.method < Len(fallback_methods)
                   THEN /\ conv' = [conv EXCEPT !.method = conv.method + 1,
                                                !.phase = "ready"]
                        /\ UNCHANGED <<pc, cres, log>>
                   ELSE ReturnFromConvert("raise", o, "methods_exhausted")
    /\ UNCHANGED <<env, job, idx, engret, ret>>
    /\ UNCHANGED <<detVars, probe, auxVars>>

\* FFmpegStrategy.convert -> convert_audio_async: create_subprocess_exec starts
\* the tool, or raises (the strategy's except clause then returns False)
FfSpawn(started) ==
    /\ pc = "convert" /\ conv.phase = "ready" /\ CurrentStrategy = "FFmpeg"
    /\ IF started
       THEN /\ conv' = [conv EXCEPT !.phase = "running"]
            /\ writers' = writers \cup {"FFmpeg"}
            /\ UNCHANGED <<pc, cres, log>>
       ELSE /\ ReturnAfter("False", out, "spawn_error", spawn_error)
            /\ UNCHANGED writers
    /\ UNCHANGED <<env, job, idx, out, engret, ret>>
    /\ UNCHANGED <<detVars, probe, auxVars>>

\* process.communicate() returns within the timeout: exit code 0 is success,
\* any other code raises SubprocessError, which the strategy turns into False
FfExit(returncode, stderr_len) ==
    /\ pc = "convert" /\ conv.phase = "running" /\ CurrentStrategy = "FFmpeg"
    /\ writers' = writers \ {"FFmpeg"}
    /\ LET ff == after_exit(returncode, stderr_len)
       IN  IF ff.raised = ""
           THEN ReturnAfter("True", out, "exit_zero", ff)
           ELSE ReturnAfter("False", out, "exit_nonzero", ff)
    /\ UNCHANGED <<env, job, idx, out, engret, ret>>
    /\ UNCHANGED <<detVars, probe, auxVars>>

\* asyncio.TimeoutError from wait_for(process.communicate(), timeout)
FfTimeout ==
    /\ pc = "convert" /\ conv.phase = "running" /\ CurrentStrategy = "FFmpeg"
    /\ IF after_timeout = "terminate"
       THEN /\ conv' = [conv EXCEPT !.phase = "terminating"]
            /\ UNCHANGED <<pc, cres, log>>
       ELSE ReturnFromConvert("False", out, "timeout_abandoned")
    /\ UNCHANGED <<env, job, idx, out, writers, engret, ret>>
    /\ UNCHANGED <<detVars, probe, auxVars>>

\* the terminated process exits within the 5 s grace period;
\* ConversionTimeoutError is raised and the strategy returns False
FfTermExit ==
    /\ pc = "convert" /\ conv.phase = "terminating"
    /\ writers' = writers \ {"FFmpeg"}
    /\ ReturnAfter("False", out, "timeout_terminated", timeout_error)
    /\ UNCHANGED <<env, job, idx, out, engret, ret>>
    /\ UNCHANGED <<detVars, probe, auxVars>>

\* the grace period runs out: process.kill()
FfGraceTimeout ==
    /\ pc = "convert" /\ conv.phase = "terminating"
    /\ IF on_grace_timeout = "kill"
       THEN /\ conv' = [conv EXCEPT !.phase = "killed"]
            /\ UNCHANGED <<pc, cres, log>>
       ELSE ReturnAfter("False", out, "timeout_unkilled", timeout_error)
    /\ UNCHANGED <<env, job, idx, out, writers, engret, ret>>
    /\ UNCHANGED <<detVars, probe, auxVars>>

\* `await process.wait()` after the kill returns; ConversionTimeoutError
FfKillWait ==
    /\ pc = "convert" /\ conv.phase = "killed"
    /\ writers' = writers \ {"FFmpeg"}
    /\ ReturnAfter("False", out, "timeout_killed", timeout_error)
    /\ UNCHANGED <<env, job, idx, out, engret, ret>>
    /\ UNCHANGED <<detVars, probe, auxVars>>

\* convert_audio verifies the result: return True, or clean up and go on
EngVerify ==
    /\ pc = "eng_verify"
    /\ IF conversion_valid(cres, out)
       THEN /\ engret' = "True"
            /\ pc' = "cts_check"
            /\ log' = Append(log, Event("return", "", "True", out, ""))
            /\ UNCHANGED <<idx, out>>
       ELSE /\ out' = remove_output(out)
            /\ Advance
            /\ UNCHANGED <<engret, log>>
    /\ UNCHANGED <<env, job, conv, writers, cres, ret>>
    /\ UNCHANGED <<detVars, probe, auxVars>>

\* convert_audio's `except Exception`: clean up and go on
EngCatch ==
    /\ pc = "eng_except"
    /\ out' = except_cleanup(out)
    /\ Advance
    /\ UNCHANGED <<env, job, conv, writers, cres, engret, ret, log>>
    /\ UNCHANGED <<detVars, probe, auxVars>>

\* every strategy was skipped or failed: return False
EngExhausted ==
    /\ pc = "eng_exhausted"
    /\ engret' = "False"
    /\ pc' = "cts_check"
    /\ log' = Append(log, Event("return", "", "False", out, ""))
    /\ UNCHANGED <<env, job, idx, out, conv, writers, cres, ret>>
    /\ UNCHANGED <<detVars, probe, auxVars>>

\* process_voice_file step 1: _get_voice_file_path yields a path or None
PvfResolve(found) ==
    /\ pc = "pvf_start"
    /\ IF found
       THEN pc' = "pvf_validate" /\ ret' = ret
       ELSE pc' = "done" /\ ret' = Raise("FileNotFoundError")
    /\ UNCHANGED <<env, job, idx, out, conv, writers, cres, engret, log>>
    /\ UNCHANGED <<detVars, probe, auxVars>>

\* mutant: the result of the validation is not acted on
pvf_rejects_mutant_never(valid) == FALSE

\* `if not await self.audio_converter.validate_audio_file(original_path): raise`
pvf_rejects(valid) == valid # "True"

\* process_voice_file steps 2 and 3: validate_audio_file and the size check
PvfValidate ==
    /\ pc = "pvf_validate"
    /\ IF pvf_rejects(validate_file(fs[InputPath]))
       THEN pc' = "done" /\ ret' = Raise("VoiceToTextError")
       ELSE IF fs[InputPath].size > MAX_FILE_SIZE_MB * 1024 * 1024
            THEN pc' = "done" /\ ret' = Raise("VoiceToTextError")
            ELSE pc' = "cts_detect" /\ ret' = ret
    /\ UNCHANGED <<env, job, idx, out, conv, writers, cres, engret, log>>
    /\ UNCHANGED <<detVars, probe, auxVars>>

\* mutant: only a format for which needs_conversion holds is converted
cts_route_mutant_needs_conversion(input_format) ==
    IF input_format = "invalid" THEN "raise"
    ELSE IF needs_conversion(input_format) THEN "convert"
    ELSE "input"

\* convert_to_supported_format steps 1 and 2: 'invalid' raises, a supported
\* format returns the input path, everything else goes on to conversion
cts_route(input_format) ==
    IF input_format = "invalid" THEN "raise"
    ELSE IF is_supported_format(input_format) THEN "input"
    ELSE "convert"

\* convert_to_supported_format steps 1 and 2: the cached detect_format, then
\* 'invalid' raises and a supported format returns the input path
CtsDetect ==
    /\ pc = "cts_detect"
    /\ DetectCall(InputPath)
    /\ LET input_format == last'.result
           route == cts_route(input_format)
       IN  CASE route = "raise" ->
                  pc' = "done" /\ ret' = Raise("FileValidationError") /\ job' = job
             [] route = "input" ->
                  /\ pc' = "done"
                  /\ ret' = [kind |-> "input", error |-> ""]
                  /\ job' = job
             [] route = "convert" ->
                  /\ pc' = "cts_alloc"
                  /\ ret' = ret
                  /\ job' = [input_format |-> input_format]
    /\ UNCHANGED <<env, idx, out, conv, writers, cres, engret, log>>
    /\ UNCHANGED <<probe, auxVars>>

\* step 3: temp_manager.create_temp_file('.mp3', 'converted_') creates an empty
\* file; steps 4 and 5 enter convert_audio
CtsAllocate ==
    /\ pc = "cts_alloc"
    /\ out' = "empty"
    /\ idx' = 1
    /\ pc' = "eng_can"
    /\ UNCHANGED <<env, job, conv, writers, cres, engret, ret, log>>
    /\ UNCHANGED <<detVars, probe, auxVars>>

\* mutant: the output path is returned whatever convert_audio said
cts_result_mutant_always(success, o) == [kind |-> "output", error |-> ""]

\* the end of convert_to_supported_format: the output path if convert_audio
\* succeeded and the file is valid, AudioConversionError otherwise
cts_result(success, o) ==
    IF success = "True"
    THEN IF output_valid(o)
         THEN [kind |-> "output", error |-> ""]
         ELSE Raise("AudioConversionError")
    ELSE Raise("AudioConversionError")

\* convert_to_supported_format returns or raises, and process_voice_file
\* passes that on
CtsFinish ==
    /\ pc = "cts_check"
    /\ ret' = cts_result(engret, out)
    /\ out' = IF engret = "True" /\ ~output_valid(out) THEN remove_output(out) ELSE out
    /\ pc' = "done"
    /\ UNCHANGED <<env, job, idx, conv, writers, cres, engret, log>>
    /\ UNCHANGED <<detVars, probe, auxVars>>

\* the files a message's voice file can be, and what the detector may have
\* cached for its path from an earlier message
PipeCorpus ==
    { Missing,
      RegularFile(0, TRUE, <<>>),
      RegularFile(MIN_FILE_SIZE_BYTES - 1, TRUE, b_AMR_NL \o b_zero8),
      RegularFile(4096, TRUE, b_AMR_NL \o b_zero8),
      RegularFile(4096, TRUE, b_SILK \o b_zero8),
      RegularFile(4096, TRUE, b_zero8 \o b_zero8),
      RegularFile(4096, TRUE, b_ID3 \o b_zero8) }

PipeCached ==
    { NoEntry,
      [result |-> "invalid", time |-> 0],
      [result |-> "wav", time |-> 0] }

PipeIdle ==
    /\ env = [os_nt |-> FALSE, ffmpeg |-> FALSE, ffprobe |-> FALSE, pilk |-> FALSE]
    /\ pc = "idle"
    /\ job = [input_format |-> ""]
    /\ idx = 1
    /\ out = "absent"
    /\ conv = ConvIdle
    /\ writers = {}
    /\ cres = "none"
    /\ engret = "none"
    /\ ret = NoRet
    /\ log = <<>>

Init ==
    /\ env \in Envs
    /\ \E f \in PipeCorpus, c \in PipeCached :
          /\ fs = [p \in Paths |-> IF p = InputPath THEN f ELSE Missing]
          /\ cache = [k \in {cache_key(p) : p \in Paths} |->
                        IF k = cache_key(InputPath) THEN c ELSE NoEntry]
          /\ stale = [p \in Paths |-> p = InputPath /\ c # NoEntry]
    /\ now = 0
    /\ prev = [p \in Paths |-> NoPrev]
    /\ last = NoCall
    /\ ProbeIdle
    /\ AuxIdle
    /\ pc = "pvf_start"
    /\ job = [input_format |-> ""]
    /\ idx = 1
    /\ out = "absent"
    /\ conv = ConvIdle
    /\ writers = {}
    /\ cres = "none"
    /\ engret = "none"
    /\ ret = NoRet
    /\ log = <<>>

Next ==
    \/ \E found \in BOOLEAN : PvfResolve(found)
    \/ PvfValidate
    \/ CtsDetect
    \/ CtsAllocate
    \/ EngCanHandle
    \/ EngCleanStale
    \/ FallbackValidate
    \/ ThreadStart
    \/ \E o \in {"empty", "valid"} : WorkerWrite(o)
    \/ \E outcome \in ThreadOutcomes("PyDub", 1) : PyDubFinish(outcome)
    \/ \E outcome \in ThreadOutcomes("Silk", 1) : SilkFinish(outcome)
    \/ \E outcome \in ThreadOutcomes("Fallback", conv.method) : FallbackFinish(outcome)
    \/ \E started \in BOOLEAN : FfSpawn(started)
    \/ \E returncode \in {0, 1}, stderr_len \in StderrLens : FfExit(returncode, stderr_len)
    \/ FfTimeout
    \/ FfTermExit
    \/ FfGraceTimeout
    \/ FfKillWait
    \/ EngVerify
    \/ EngCatch
    \/ EngExhausted
    \/ CtsFinish

Spec == Init /\ [][Next]_vars

DetectorInit == DetInit /\ ProbeIdle /\ PipeIdle /\ AuxIdle

DetectorNext ==
    \/ \E p \in Paths : \E f \in CorpusAt(p) : WriteFile(p, f)
    \/ Tick
    \/ \E p \in Paths : ValidateFile(p)
    \/ \E p \in Paths : DetectFormat(p)

DetectorSpec == DetectorInit /\ [][DetectorNext]_vars

HeaderInit == DetIdle /\ ProbeInit /\ PipeIdle /\ AuxIdle

HeaderNext == ProbeValidate \/ ProbeDetect

HeaderSpec == HeaderInit /\ [][HeaderNext]_vars

LocatorInit == DetIdle /\ ProbeIdle /\ PipeIdle /\ LocInit /\ ResIdle /\ TmpIdle /\ SvcIdle

LocatorNext ==
    \/ \E op \in {"ffmpeg_path", "is_available"} : ReadPath(op)
    \/ ClearCache
    \/ LocTick
    \/ \E h \in Hosts : HostChange(h)

LocatorSpec == LocatorInit /\ [][LocatorNext]_vars

ResolverInit == DetIdle /\ ProbeIdle /\ PipeIdle /\ LocIdle /\ ResInit /\ TmpIdle /\ SvcIdle

ResolverNext == ResTry \/ ResExhausted \/ ResReclaim

ResolverSpec == ResolverInit /\ [][ResolverNext]_vars

TempInit == DetIdle /\ ProbeIdle /\ PipeIdle /\ LocIdle /\ ResIdle /\ TmpIdle /\ SvcIdle

TempNext ==
    \/ ScopeEnter
    \/ \E p \in TmpPaths : HolderWrite(p)
    \/ \E p \in TmpPaths : HolderRemove(p)
    \/ \E p \in TmpPaths : HolderDone(p)
    \/ \E p \in TmpPaths, how \in ScopeExits : ScopeExit(p, how)
    \/ CreateTempFile
    \/ CleanupAll
    \/ TmpTick

TempSpec == TempInit /\ [][TempNext]_vars

\* tasks on one service: conversions allocate, write and return their
\* outputs, tasks transcribe them, and any task may call cleanup_resources
SharedNext ==
    \/ CreateTempFile
    \/ \E p \in TmpPaths : HolderWrite(p)
    \/ \E p \in TmpPaths : HolderRemove(p)
    \/ \E p \in TmpPaths : ServiceReturns(p)
    \/ \E p \in TmpPaths : Transcribe(p)
    \/ CleanupAll

SharedSpec == TempInit /\ [][SharedNext]_vars

PermissionInit ==
    DetIdle /\ ProbeIdle /\ PipeIdle /\ LocIdle /\ ResIdle /\ TmpIdle /\ handed = {} /\ PermInit

PermissionNext ==
    \/ \E op \in {"can_process_voice", "can_generate_reply"},
          message_type \in MessageTypes, group_id \in CheckGroups :
              PermCheck(op, message_type, group_id)
    \/ \E group_id \in CheckGroups, action \in PermActions \cup {"other"},
          permission_type \in {"blacklist", "whitelist", "other"}, allowed \in BOOLEAN :
              PermUpdate(group_id, action, permission_type, allowed)
    \/ PermTick

PermissionSpec == PermissionInit /\ [][PermissionNext]_vars

\* SilkStrategy's own manager (self.temp_manager): conversions running side by
\* side open and leave temp_file scopes on it, and nothing else is called on it
ScopedNext ==
    \/ ScopeEnter
    \/ \E p \in TmpPaths : HolderWrite(p)
    \/ \E p \in TmpPaths, how \in ScopeExits : ScopeExit(p, how)
    \/ TmpTick

ScopedSpec == TempInit /\ [][ScopedNext]_vars

(***************************************************************************)
(* Properties of the format detector                                       *)
(***************************************************************************)
\* the header begins with none of the table's signatures
NoKnownSignature(h) ==
    \A sig \in {b_AMR, b_SILK, b_ID3, b_FFFB, b_FFF3, b_RIFF, b_OggS, b_fLaC} :
        ~StartsWith(h, sig)

LastFile == fs[last.path]

\* C7 as stated: every file of at least the minimum size whose first bytes
\* match no signature is detected as 'unknown'.
C7_AsStated ==
    ( /\ last.op = "detect"
      /\ LastFile.kind = "file"
      /\ LastFile.size >= MIN_FILE_SIZE_BYTES
      /\ NoKnownSignature(LastFile.content) )
    => last.result = "unknown"

\* C7: a readable regular file whose size lies in [MIN_FILE_SIZE_BYTES,
\* MAX_FILE_SIZE_MB MiB] and whose first bytes match no signature is detected as
\* 'unknown' (never 'invalid', never a raise), unless the call is answered from
\* a cache entry stored before the file at that path last changed.
C7_UnknownNotInvalid ==
    ( /\ last.op = "detect"
      /\ last.coherent
      /\ LastFile.kind = "file"
      /\ LastFile.readable
      /\ LastFile.size >= MIN_FILE_SIZE_BYTES
      /\ LastFile.size <= MaxFileSizeBytes
      /\ NoKnownSignature(LastFile.content) )
    => last.result = "unknown"

C7_Witness ==
    /\ last.op = "detect"
    /\ ~last.hit
    /\ LastFile.kind = "file"
    /\ LastFile.size = MIN_FILE_SIZE_BYTES
    /\ NoKnownSignature(LastFile.content)
    /\ last.result = "unknown"

\* what the contract of validate(path) says
ValidByContract(f) ==
    /\ f.kind = "file"
    /\ f.size >= MIN_FILE_SIZE_BYTES
    /\ f.size <= MaxFileSizeBytes
    /\ f.readable
    /\ Len(f.content) >= 5

BelowMinimumOrMissing(f) ==
    \/ f.kind = "missing"
    \/ f.kind = "file" /\ f.size < MIN_FILE_SIZE_BYTES

ValidateContract ==
    last.op = "validate" =>
        /\ last.result \in {"True", "False"}
        /\ (last.result = "True") <=> ValidByContract(LastFile)

\* C8 as stated: validate is true iff the path is a regular file of a size in
\* range with 5 readable header bytes; for a missing path or a file below the
\* minimum size detectFormat returns 'invalid'; neither raises.
C8_AsStated ==
    /\ ValidateContract
    /\ last.op = "detect" => last.result # "raise"
    /\ (last.op = "detect" /\ BelowMinimumOrMissing(LastFile))
         => last.result = "invalid"

\* C8: as stated, with detectFormat returning 'invalid' for a missing path or a
\* file below the minimum size unless the call is answered from a cache entry
\* stored before the file at that path last changed.
C8_ValidateAndInvalid ==
    /\ ValidateContract
    /\ last.op = "detect" => last.result # "raise"
    /\ (last.op = "detect" /\ last.coherent /\ BelowMinimumOrMissing(LastFile))
         => last.result = "invalid"

C8_Witness ==
    /\ last.op = "detect"
    /\ last.expired
    /\ LastFile.kind = "file"
    /\ LastFile.size = MIN_FILE_SIZE_BYTES - 1
    /\ last.result = "invalid"

\* C10 as stated: two calls of detectFormat on a file unchanged between them
\* return the same result.
C10_AsStated ==
    (last.op = "detect" /\ last.prevResult # "none")
    => last.result = last.prevResult

\* C10: two calls of detectFormat on a file unchanged between them return the
\* same result, from the cache or re-computed after expiry, provided the first
\* call was not answered from a cache entry stored before the file last changed.
C10_Idempotent ==
    (last.op = "detect" /\ last.prevResult # "none" /\ last.prevCoherent)
    => last.result = last.prevResult

C10_Witness ==
    /\ last.op = "detect"
    /\ last.expired
    /\ last.prevResult = "mp3"
    /\ last.prevCoherent
    /\ last.result = "mp3"

\* the signature table of the contract, first match first
ExpectedFormat(h) ==
    IF StartsWith(h, b_AMR) THEN "amr"
    ELSE IF StartsWith(h, b_SILK) THEN "silk"
    ELSE IF StartsWith(h, b_ID3) \/ StartsWith(h, b_FFFB) \/ StartsWith(h, b_FFF3)
         THEN "mp3"
    ELSE IF StartsWith(h, b_RIFF) /\ Contains(b_WAVE, h) THEN "wav"
    ELSE IF StartsWith(h, b_OggS) THEN "ogg"
    ELSE IF StartsWith(h, b_fLaC) THEN "flac"
    ELSE "unknown"

ProbeHeader == ReadHeader(probe.file, HEADER_READ)

\* C9: a valid file is classified by the ordered signature table, and a RIFF
\* header is 'wav' exactly when WAVE occurs in its 12 bytes.
C9_SignatureTable ==
    (probe.stage = "detected" /\ ValidByContract(probe.file)) =>
        /\ probe.result = ExpectedFormat(ProbeHeader)
        /\ StartsWith(ProbeHeader, b_RIFF) =>
              ((probe.result = "wav") <=> Contains(b_WAVE, ProbeHeader))

C9_Witness ==
    /\ probe.stage = "detected"
    /\ ValidByContract(probe.file)
    /\ StartsWith(ProbeHeader, b_RIFF)
    /\ ~Contains(b_WAVE, ProbeHeader)
    /\ probe.result = "unknown"

(***************************************************************************)
(* Properties of the conversion engine and the pipeline                    *)
(***************************************************************************)
\* the priority order of the contract
PriorityOrder == <<"SilkDecoderExe", "FFmpeg", "PyDub", "Silk", "Fallback">>

IsCanHandle(e) == e.ev = "can_handle"

CanHandleEvents == SelectSeq(log, IsCanHandle)

ReturnsFalse(e) == e.ev = "return" /\ e.val = "False"

ReturnsTrue(e) == e.ev = "return" /\ e.val = "True"

\* C1: can_handle is asked in the fixed priority order; convert is invoked only
\* right after its strategy's can_handle returned true; a success with a valid
\* output is followed by `return True` and by no further call.
C1_PriorityOrder ==
    /\ Len(CanHandleEvents) <= Len(PriorityOrder)
    /\ \A k \in 1..Len(CanHandleEvents) : CanHandleEvents[k].s = PriorityOrder[k]
    /\ \A k \in 1..Len(log) :
        /\ log[k].ev = "convert" =>
              /\ k > 1
              /\ log[k-1].ev = "can_handle"
              /\ log[k-1].s = log[k].s
              /\ log[k-1].val = "True"
        /\ (log[k].ev = "can_handle" /\ log[k].val = "True" /\ k < Len(log)) =>
              (log[k+1].ev = "convert" /\ log[k+1].s = log[k].s)
        /\ (log[k].ev = "converted" /\ log[k].val = "True" /\ log[k].out = "valid") =>
              IF k < Len(log) THEN ReturnsTrue(log[k+1]) ELSE pc = "eng_verify"
        /\ log[k].ev = "return" => k = Len(log)

C1_Witness ==
    /\ engret = "True"
    /\ Len(log) >= 6
    /\ \E k \in 1..Len(log) : log[k].ev = "can_handle" /\ log[k].s = "FFmpeg"
                              /\ log[k].val = "False"
    /\ \E k \in 1..Len(log) : log[k].ev = "converted" /\ log[k].s = "PyDub"
                              /\ log[k].val = "True"
    /\ \A k \in 1..Len(log) : log[k].s \notin {"Silk", "Fallback"}

\* C2: a strategy that reports success with a missing or empty output is a
\* failed strategy (the next strategy is asked), and convert_audio returns true
\* only with the output file present and non-empty.
C2_OutputVerified ==
    /\ engret = "True" => out = "valid"
    /\ \A k \in 1..Len(log) :
        (log[k].ev = "converted" /\ log[k].val = "True" /\ log[k].out # "valid") =>
            IF k < Len(log)
            THEN log[k+1].ev = "can_handle" \/ ReturnsFalse(log[k+1])
            ELSE /\ engret = "none"
                 /\ \/ pc = "eng_verify"
                    \/ pc \in {"eng_can", "eng_exhausted"} /\ out = "absent"

C2_Witness ==
    \E k \in 1..Len(log) :
        /\ log[k].ev = "converted" /\ log[k].val = "True" /\ log[k].out = "empty"
        /\ k < Len(log)
        /\ log[k+1].ev = "can_handle"

SomeStrategyHandles ==
    engret # "none" =>
        \E k \in 1..Len(log) : log[k].ev = "can_handle" /\ log[k].val = "True"

\* C5: at most one strategy has a live worker on the output path, only while
\* its convert is running; the next strategy is asked only after the previous
\* one was skipped, returned or raised.
C5_Sequential ==
    /\ Cardinality(writers) <= 1
    /\ writers # {} =>
          /\ pc = "convert"
          /\ conv.phase \in {"running", "terminating", "killed"}
          /\ writers = {CurrentStrategy}
    /\ \A k \in 2..Len(log) :
          log[k].ev = "can_handle" =>
              \/ log[k-1].ev = "can_handle" /\ log[k-1].val = "False"
              \/ log[k-1].ev \in {"converted", "raised"}

C5_Witness ==
    /\ pc = "convert"
    /\ writers = {"Fallback"}
    /\ conv.method = 2
    /\ \E k \in 1..Len(log) : log[k].ev = "converted" /\ log[k].why = "timeout_killed"
    /\ \E k \in 1..Len(log) : log[k].ev = "raised" /\ log[k].s = "PyDub"

\* C6: process_voice_file ends by raising, by returning the input path (the
\* detected format is supported), or by returning the output path with the
\* output file present and non-empty.
C6_NoPartialResult ==
    /\ pc # "done" => ret.kind = "none"
    /\ pc = "done" =>
          \/ ret.kind = "raise"
          \/ ret.kind = "input" /\ last.op = "detect" /\ is_supported_format(last.result)
          \/ ret.kind = "output" /\ engret = "True" /\ out = "valid"

C6_Witness ==
    /\ pc = "done"
    /\ ret.kind = "output"
    /\ out = "valid"
    /\ \E k \in 1..Len(log) : log[k].ev = "converted" /\ log[k].val = "True"
                              /\ log[k].out = "empty"

(***************************************************************************)
(* Properties of the tool locator                                          *)
(***************************************************************************)
LocReads == {"ffmpeg_path", "is_available"}

\* C11: a read made less than the TTL after the read that ran the last
\* discovery (no clear_cache in between) runs no discovery and returns that
\* discovery's result, whatever the machine has become since; a result of None
\* is served the same way.
C11_CachedWithinTtl ==
    (/\ lcall.op \in LocReads
     /\ lcall.stood
     /\ lcall.since < SEARCH_CACHE_TIMEOUT_SECONDS) =>
        /\ ~lcall.discovered
        /\ lcall.path = lcall.before
        /\ lcall.op = "is_available" => lcall.available = is_available(lcall.before)
        /\ loc.path = lcall.before

C11_Witness ==
    /\ lcall.op = "is_available"
    /\ lcall.stood
    /\ lcall.since > 0
    /\ lcall.since < SEARCH_CACHE_TIMEOUT_SECONDS
    /\ lcall.before = "None"
    /\ lcall.fresh # "None"
    /\ lcall.available = "False"

\* C12: a read made once the TTL has elapsed since the last discovery runs the
\* discovery once and stores its result with the time of this read, so that
\* the next window counts from it.
C12_RediscoverAfterTtl ==
    (/\ lcall.op \in LocReads
     /\ lcall.stood
     /\ lcall.since >= SEARCH_CACHE_TIMEOUT_SECONDS) =>
        /\ lcall.discovered
        /\ lcall.path = lcall.fresh
        /\ loc = [path |-> lcall.fresh, attempted |-> TRUE, stamp |-> lcall.at]
        /\ disc = [at |-> lcall.at, result |-> lcall.fresh, stands |-> TRUE,
                   cleared |-> FALSE]

C12_Witness ==
    /\ lcall.op \in LocReads
    /\ lcall.stood
    /\ lcall.since >= SEARCH_CACHE_TIMEOUT_SECONDS
    /\ lcall.before # lcall.fresh
    /\ lcall.path = lcall.fresh
    /\ loc.stamp = ltime

\* C13: the first read after clear_cache runs the discovery, however recent
\* the discovery before the clear was, and returns what it finds now.
C13_ClearForcesRediscovery ==
    (lcall.op \in LocReads /\ lcall.cleared) =>
        /\ lcall.discovered
        /\ lcall.path = lcall.fresh
        /\ loc.attempted

C13_Witness ==
    /\ lcall.op \in LocReads
    /\ lcall.cleared
    /\ lcall.since < SEARCH_CACHE_TIMEOUT_SECONDS
    /\ lcall.before = "None"
    /\ lcall.fresh # "None"
    /\ lcall.path = lcall.fresh

\* the variables naming an executable on machine h
ValidOverrides(h) == {n \in DOMAIN h.envvar : h.envvar[n] = "valid"}

\* C14 as stated: when a variable names a valid executable, a discovery returns
\* the path of such a variable, whatever else is installed.
C14_AsStated ==
    (/\ lcall.op \in LocReads
     /\ lcall.discovered
     /\ ValidOverrides(host) # {}) =>
        \E n \in ValidOverrides(host) : lcall.path = "/env/" \o n

\* the source a probe belongs to, 1..5
ProbeClass(p) ==
    CASE p \in {"path:ffmpeg", "path:ffmpeg.exe"} -> 1
      [] p = "fixed:search_paths" -> 2
      [] p \in {"system:whereis", "system:which"} -> 3
      [] p \in {"env:FFMPEG_PATH", "env:FFMPEG_BINARY", "env:FFMPEG_EXECUTABLE"} -> 4
      [] p \in {"find:/usr", "find:/opt", "find:/app"} -> 5

\* source c has a valid executable to offer on machine h
SourceHas(h, c) ==
    CASE c = 1 -> "ffmpeg" \in h.which \/ (h.os_nt /\ "ffmpeg.exe" \in h.which)
      [] c = 2 -> h.fixed # ""
      [] c = 3 -> ~h.os_nt /\ (h.whereis = "hit" \/ h.whichcmd = "hit")
      [] c = 4 -> ValidOverrides(h) # {}
      [] c = 5 -> ~h.os_nt /\ \E d \in DOMAIN h.find : h.find[d] = "hit"

\* source c is probed at all on machine h
SourceApplies(h, c) ==
    CASE c = 3 -> ~h.os_nt
      [] c = 5 -> ~h.os_nt /\ \E d \in DOMAIN h.find : h.find[d] # "nodir"
      [] OTHER -> TRUE

\* C15: a discovery probes PATH, the install paths, the system commands, the
\* variables and the recursive search in that order; it returns the hit of the
\* first source that has one and probes no source after it.
C15_DiscoveryOrder ==
    (lcall.op \in LocReads /\ lcall.discovered) =>
        LET ps == lcall.probes
            top == ProbeClass(ps[Len(ps)])
        IN  /\ Len(ps) >= 1
            /\ ps[1] = "path:ffmpeg"
            /\ \A i, j \in 1..Len(ps) : i < j => ProbeClass(ps[i]) <= ProbeClass(ps[j])
            /\ \A c \in 1..5 :
                  (SourceApplies(host, c) /\ c <= top) =>
                      \E i \in 1..Len(ps) : ProbeClass(ps[i]) = c
            /\ IF lcall.path # "None"
               THEN /\ SourceHas(host, top)
                    /\ \A c \in 1..5 : c < top => ~SourceHas(host, c)
               ELSE \A c \in 1..5 : ~SourceHas(host, c)

C15_Witness ==
    /\ lcall.op \in LocReads
    /\ lcall.discovered
    /\ lcall.path = "/find/opt/bin/ffmpeg"
    /\ lcall.probes = <<"path:ffmpeg", "fixed:search_paths", "system:whereis",
                        "system:which", "env:FFMPEG_PATH", "env:FFMPEG_BINARY",
                        "env:FFMPEG_EXECUTABLE", "find:/usr", "find:/opt">>

LocFormats == {"amr", "silk", "mp3", "wav", "unknown"}

\* C16: a read ends with a path or None and is_available with a boolean,
\* whatever the probes do; when the tool is absent FFmpegStrategy.can_handle
\* is false for every pair.
C16_DiscoveryNeverRaises ==
    /\ lcall.op \in LocReads => lcall.path # "raise"
    /\ lcall.op = "is_available" =>
          /\ lcall.available \in {"True", "False"}
          /\ lcall.available = "True" <=> lcall.path # "None"
          /\ lcall.available = "False" =>
                \A i, o \in LocFormats :
                    ~FFmpeg_can_handle([os_nt |-> host.os_nt, ffmpeg |-> FALSE,
                                        ffprobe |-> TRUE, pilk |-> TRUE], i, o)

C16_Witness ==
    /\ lcall.op = "is_available"
    /\ lcall.discovered
    /\ lcall.available = "False"
    /\ host.whereis = "raise"
    /\ \E d \in DOMAIN host.find : host.find[d] = "raise"
    /\ "find:/usr" \in {lcall.probes[i] : i \in 1..Len(lcall.probes)}

(***************************************************************************)
(* File locator                                                            *)
(***************************************************************************)
\* the order the contract names
ResolverOrder ==
    <<"official_convert", "base64_conversion", "file_service_registration",
      "path_attribute", "url_download", "file_attribute",
      "relative_path_search", "temp_directory_search",
      "system_directory_search", "filename_pattern_matching">>

\* a strategy handed back the path of something that exists
Yielded(e) == e.kind = "path" /\ e.file # "missing"

\* C17: the strategies run in the fixed order official conversion, base64
\* decode, file-service registration, path attribute, url download, file
\* attribute, relative-path search, temp-directory search, system-directory
\* search, filename-pattern matching; the first one that yields an existing
\* path ends the call with that result, and none runs after it.
C17_FixedOrderFirstHit ==
    /\ Len(rlog) <= Len(ResolverOrder)
    /\ \A i \in 1..Len(rlog) : rlog[i].s = ResolverOrder[i]
    /\ \A i \in 1..Len(rlog) : Yielded(rlog[i]) =>
           /\ i = Len(rlog)
           /\ rpc = "done"
           /\ rret = [kind |-> "path", by |-> rlog[i].s, file |-> rlog[i].file]
    /\ rret.kind = "path" => rlog # <<>> /\ Yielded(rlog[Len(rlog)])

C17_Witness ==
    /\ rret.kind = "path"
    /\ rret.by = "file_attribute"
    /\ rlog[1].kind = "path"
    /\ voice["temp_directory_search"].kind = "path"

\* C18: a strategy that raises or comes back empty is followed by the next
\* strategy; the call returns None only after all ten have run without
\* yielding an existing file, and it never raises.
C18_FailuresCaught ==
    /\ rret.kind # "raise"
    /\ rpc = "done" => rret.kind \in {"path", "None"}
    /\ rret.kind = "None" =>
           /\ Len(rlog) = 10
           /\ \A i \in 1..10 : ~Yielded(rlog[i])
    /\ \A i \in 1..Len(rlog) : ~Yielded(rlog[i]) =>
           \/ i < Len(rlog)
           \/ i < 10 /\ rpc = "loop" /\ rk = i + 1
           \/ i = 10 /\ rpc \in {"exhausted", "done"}

C18_Witness ==
    /\ rret.kind = "None"
    /\ rlog[1].kind = "raise"
    /\ rlog[8].kind = "raise"
    /\ rlog[2].kind = "none"

\* C19 as stated: every path the call returns is a regular file above 100
\* bytes and at most 25 MB.
C19_AsStated == rret.kind = "path" => rret.file = "ok"

RECURSIVE CountIn(_, _)
CountIn(list, x) ==
    IF list = <<>> THEN 0
    ELSE (IF Head(list) = x THEN 1 ELSE 0) + CountIn(Tail(list), x)

CreatedList == Append(tcall.before, tcall.path)

CreatedFiles == [tcall.files EXCEPT ![tcall.path] = [exists |-> TRUE, ctime |-> ttime]]

\* tracked paths with a file older than 30 minutes, and with no file
OldPaths ==
    {p \in TmpPaths : /\ CountIn(CreatedList, p) > 0
                      /\ CreatedFiles[p].exists
                      /\ ttime - CreatedFiles[p].ctime > 30 * 60}

GonePaths == {p \in TmpPaths : CountIn(CreatedList, p) > 0 /\ ~CreatedFiles[p].exists}

Without(list, S) == SelectSeq(list, LAMBDA x : x \notin S)

C23_AsStated ==
    tcall.op \in {"create_temp_file", "scope_enter"} => Len(tracked) <= MAX_TEMP_FILES

\* C24 as stated: under every interleaving on one manager each file on disk
\* has exactly one entry in the list, no path has two, a scope's file is
\* there until its scope exits and gone after it, and a cleanup_all made
\* when no scope is open and no conversion is under way leaves an empty list
\* and no scratch file.
C24_AsStated ==
    /\ \A p \in TmpPaths : CountIn(tracked, p) <= 1
    /\ \A p \in TmpPaths : tfiles[p].exists => CountIn(tracked, p) = 1
    /\ tcall.op = "scope_exit" => ~tfiles[tcall.path].exists
    /\ (tcall.op = "cleanup_all" /\ scopes = {} /\ holders = {}) =>
           /\ tracked = <<>>
           /\ \A p \in TmpPaths : ~tfiles[p].exists

(***************************************************************************)
(* Pipeline and engine, continued                                          *)
(***************************************************************************)
\* C26 as stated: the file at the output path, which create_temp_file made
\* and tracks, is never removed by a step of the pipeline or the engine
\* (none of them is a call on the manager).
C26_AsStated == [][out # "absent" => out' # "absent"]_vars

\* an input that validation rejects for being missing, empty or too small
RejectedInput(f) == f.kind = "missing" \/ (f.kind = "file" /\ f.size < 100)

\* C27: for a missing, 0-byte or below-minimum input process_voice_file
\* raises without the engine having been entered (no can_handle, no convert)
\* and without an output file having been allocated.
C27_InvalidNeverConverted ==
    RejectedInput(fs[InputPath]) =>
        /\ pc \in {"pvf_start", "pvf_validate", "done"}
        /\ log = <<>>
        /\ out = "absent"
        /\ engret = "none"
        /\ pc = "done" => ret.kind = "raise"

C27_Witness ==
    /\ fs[InputPath].kind = "file"
    /\ fs[InputPath].size = 0
    /\ pc = "done"
    /\ ret = Raise("VoiceToTextError")

\* the log entries of timeouts of the tool
TimeoutEvents == {i \in 1..Len(log) : log[i].why \notin
                     {"", "ok", "error", "tool_error", "retries_exhausted",
                      "methods_exhausted", "input_invalid", "spawn_error",
                      "exit_zero", "exit_nonzero"}}

\* C28: on a timeout the subprocess is terminated first, killed only after
\* the grace period ran out on the terminated process, and the call is left
\* only after the process has exited; what is raised is always
\* ConversionTimeoutError.
C28_TimeoutSequence ==
    /\ [](/\ conv.phase \in {"terminating", "killed"} =>
              pc = "convert" /\ "FFmpeg" \in writers
          /\ pc # "convert" => "FFmpeg" \notin writers
          /\ \A i \in TimeoutEvents :
                 /\ log[i].s = "FFmpeg"
                 /\ log[i].why \in {"timeout_terminated", "timeout_killed"}
                 /\ log[i].ff.raised = "ConversionTimeoutError"
                 /\ log[i].val = "False")
    /\ [][/\ (conv'.phase = "terminating" /\ conv.phase # "terminating") =>
               conv.phase = "running"
          /\ (conv'.phase = "killed" /\ conv.phase # "killed") =>
               conv.phase = "terminating"
          /\ (Len(log') > Len(log) /\ log'[Len(log')].why = "timeout_terminated") =>
               conv.phase = "terminating"
          /\ (Len(log') > Len(log) /\ log'[Len(log')].why = "timeout_killed") =>
               conv.phase = "killed"]_vars

C28_Witness ==
    /\ pc = "eng_verify"
    /\ log[Len(log)].why = "timeout_killed"
    /\ log[Len(log)].ff.raised = "ConversionTimeoutError"
    /\ writers = {}

\* the log entries of the tool's returns from communicate()
ExitEvents == {i \in 1..Len(log) : log[i].ff.code # -1}

\* C29: the tool's run counts as a success only with exit code 0; with any
\* other code convert_audio_async raises an error whose message carries at
\* most 500 bytes of stderr, the strategy reports False, and the engine goes
\* on to the next strategy.
C29_ExitCodeZeroRequired ==
    /\ \A i \in 1..Len(log) :
           (log[i].s = "FFmpeg" /\ log[i].ev = "converted" /\ log[i].val = "True") =>
               log[i].ff.code = 0 /\ log[i].ff.raised = ""
    /\ \A i \in ExitEvents :
           log[i].ff.code # 0 =>
               /\ log[i].val = "False"
               /\ log[i].ff.raised # ""
               /\ log[i].ff.stderr = (IF log[i].ff.full < 500 THEN log[i].ff.full ELSE 500)
               /\ i < Len(log) =>
                      \/ log[i + 1].ev = "can_handle"
                      \/ log[i + 1].ev = "return" /\ log[i + 1].val = "False"

C29_Witness ==
    /\ Len(log) >= 4
    /\ \E i \in ExitEvents :
           /\ log[i].ff.code = 1
           /\ log[i].ff.full = 501
           /\ i < Len(log)
           /\ log[i + 1].ev = "can_handle"

C25_AsStated == scratch.reclaimed => scratch.files = {}

(***************************************************************************)
(* How a strategy's failure reaches the engine                             *)
(***************************************************************************)
IsRaised(e) == e.ev = "raised"

EndsConvert(e) == e.ev \in {"converted", "raised"}

\* C31 as the specification words it: no strategy but the fallback raises,
\* and the fallback raises only when its sub-methods are exhausted
C31_AsStated ==
    \A k \in 1..Len(log) :
        IsRaised(log[k]) => log[k].s = "Fallback" /\ log[k].why = "methods_exhausted"

\* C31: the FFmpeg strategy answers every internal failure with False and
\* never raises; the PyDub strategy answers False only for a tool-related
\* failure and raises once its retries are used up; the SILK strategy raises
\* once its retries are used up; the fallback strategy raises when its input
\* fails validation or when every sub-method has failed.
C31_FailureSignals ==
    \A k \in 1..Len(log) :
        LET e == log[k]
        IN  /\ IsRaised(e) => e.s \in {"PyDub", "Silk", "Fallback"}
            /\ e.s = "FFmpeg" /\ e.ev = "converted" /\ e.ff.raised # ""
                   => e.val = "False"
            /\ e.s = "PyDub" /\ e.ev = "converted" /\ e.val = "False"
                   => e.why = "tool_error"
            /\ e.s \in {"PyDub", "Silk"} /\ IsRaised(e)
                   => e.why = "retries_exhausted" /\ e.attempt = max_retries(e.s) + 1
            /\ e.s = "Fallback" /\ IsRaised(e)
                   => e.why \in {"input_invalid", "methods_exhausted"}

C31_Witness ==
    /\ \E k \in 1..Len(log) : log[k].s = "FFmpeg" /\ log[k].ev = "converted"
                              /\ log[k].ff.raised # "" /\ log[k].val = "False"
    /\ \E k \in 1..Len(log) : log[k].s = "PyDub" /\ IsRaised(log[k])
    /\ \E k \in 1..Len(log) : log[k].s = "Fallback" /\ IsRaised(log[k])
                              /\ log[k].why = "methods_exhausted"

(***************************************************************************)
(* retry_on_failure around PyDubStrategy.convert                           *)
(***************************************************************************)
\* the sleeps retry_on_failure has made before attempt number n
SleepsBefore(n) == [i \in 1..(n - 1) |-> retry_delay(i - 1)]

\* C32: PyDubStrategy.convert makes at most three attempts, sleeps before
\* each repeated attempt, raises only when the third attempt fails with a
\* generic error, returns False at once on a tool-related error and True at
\* once on success; no attempt follows the one that ended the call.
C32_PyDubRetries ==
    /\ \A k \in 1..Len(log) :
        LET e == log[k]
        IN  e.s = "PyDub" /\ EndsConvert(e) =>
              /\ e.attempt \in 1..3
              /\ e.slept = SleepsBefore(e.attempt)
              /\ \A i \in 1..Len(e.slept) : e.slept[i] > 0
              /\ IsRaised(e) => e.attempt = 3 /\ e.why = "retries_exhausted"
              /\ e.ev = "converted" /\ e.val = "False" => e.why = "tool_error"
              /\ e.ev = "converted" /\ e.val = "True" => e.why = "ok"
              /\ e.ev = "converted" => e.val \in {"True", "False"}
              /\ \A j \in (k + 1)..Len(log) : log[j].s # "PyDub"
              /\ k = Len(log) => conv = ConvIdle
    /\ pc = "convert" /\ CurrentStrategy = "PyDub"
           => conv.attempt \in 0..2 /\ conv.slept = SleepsBefore(conv.attempt + 1)

C32_Witness ==
    /\ \E k \in 1..Len(log) : /\ log[k].s = "PyDub" /\ IsRaised(log[k])
                              /\ log[k].attempt = 3 /\ log[k].slept = <<1, 2>>
    /\ pc = "done"

(***************************************************************************)
(* PyDubStrategy.can_handle for the engine's target format                 *)
(***************************************************************************)
SourceFormats == {"amr", "silk", "mp3", "wav", "ogg", "flac", "m4a", "unknown"}

\* C33 as the specification words it: without the tool the PyDub strategy
\* claims wav -> mp3 and no other source; with the tool it claims mp3, wav,
\* ogg, flac and amr
C33_AsStated ==
    \A src \in SourceFormats :
        PyDub_can_handle(env, src, "mp3") <=>
            IF ~env.ffprobe THEN src = "wav"
            ELSE src \in {"mp3", "wav", "ogg", "flac", "amr"}

(***************************************************************************)
(* FallbackStrategy.convert between two sub-methods                        *)
(***************************************************************************)
FallbackAboutToStart(n) ==
    /\ pc = "convert" /\ CurrentStrategy = "Fallback"
    /\ conv.phase = "ready" /\ conv.method = n

\* C34 as the specification words it: the sub-methods run in their order, an
\* output is accepted only when the file is there and not empty, and every
\* sub-method after the first starts with no file at the output path
C34_AsStated ==
    /\ \A n \in 2..Len(fallback_methods) : FallbackAboutToStart(n) => out = "absent"
    /\ \A k \in 1..Len(log) :
          log[k].s = "Fallback" /\ log[k].ev = "converted"
              => log[k].val = "True" /\ log[k].out = "valid"

(***************************************************************************)
(* convert_to_supported_format: which inputs are converted                 *)
(***************************************************************************)
EngineEntered == pc \notin {"pvf_start", "pvf_validate", "cts_detect", "cts_alloc"}
                 /\ (Len(log) > 0 \/ pc = "eng_can")

\* C35: once the format is detected, 'invalid' ends the call with
\* FileValidationError and a supported format ends it with the input path, in
\* both cases with nothing allocated and the engine never asked; every other
\* format, 'unknown' included, gets an output file allocated and is handed to
\* convert_audio with target mp3.
C35_Routing ==
    last.op = "detect" =>
        /\ last.result = "invalid" =>
              /\ pc = "done" /\ ret = Raise("FileValidationError")
              /\ log = <<>> /\ out = "absent"
        /\ is_supported_format(last.result) =>
              /\ pc = "done" /\ ret = [kind |-> "input", error |-> ""]
              /\ log = <<>> /\ out = "absent"
        /\ last.result # "invalid" /\ ~is_supported_format(last.result) =>
              /\ job.input_format = last.result
              /\ ret.kind = "input" => FALSE
              /\ ret.kind = "raise" => ret.error = "AudioConversionError"
              /\ pc = "cts_alloc" => out = "absent" /\ log = <<>>
              /\ pc # "cts_alloc" => EngineEntered
              /\ pc = "done" => Len(log) > 0
              /\ Len(log) > 0 =>
                    /\ log[1].ev = "can_handle" /\ log[1].s = strategies[1]
                    /\ log[1].out = "empty"
              /\ \A k \in 1..Len(log) :
                    log[k].ev = "can_handle" =>
                        (log[k].val = "True"
                            <=> can_handle(log[k].s, env, last.result, "mp3"))

C35_Witness ==
    /\ last.op = "detect" /\ last.result = "unknown" /\ ~needs_conversion("unknown")
    /\ pc = "done" /\ ret.kind = "output"
    /\ \E k \in 1..Len(log) : log[k].ev = "convert"

(***************************************************************************)
(* detect_format within and after the cache's time to live                 *)
(***************************************************************************)
LastEntry == cache[cache_key(last.path)]

\* C36: a detect_format call answered from the cache returns the stored
\* result of an entry younger than ttl_seconds, whatever the file is now; a
\* call that finds no entry, or one that is ttl_seconds old or older,
\* classifies the current file and stores that; so a result that disagrees
\* with the current file comes only from an entry younger than ttl_seconds
\* that was stored before the file last changed.
C36_StaleOnlyWithinTtl ==
    last.op = "detect" =>
        /\ LastEntry # NoEntry
        /\ LastEntry.result = last.result
        /\ last.hit => now - LastEntry.time < ttl_seconds
        /\ ~last.hit => /\ LastEntry.time = now
                        /\ last.result = detect_format_body(LastFile)
        /\ last.expired => ~last.hit
        /\ last.result # detect_format_body(LastFile) =>
              /\ last.hit /\ ~last.coherent
              /\ now - LastEntry.time < ttl_seconds

\* 'invalid' was cached while the path did not exist; the file is there now
\* and a call within the time to live still says 'invalid'
C36_Witness ==
    /\ last.op = "detect" /\ last.hit
    /\ last.result = "invalid"
    /\ detect_format_body(LastFile) = "mp3"
    /\ now - LastEntry.time = ttl_seconds - TickStep

(***************************************************************************)
(* Concurrent tasks on one service                                         *)
(***************************************************************************)
\* C37 as the specification words it: a converted output returned to a task
\* is on disk until it is transcribed, whatever other tasks call in between,
\* and an output written by a conversion still under way is tracked.
C37_AsStated ==
    /\ \A p \in handed : tfiles[p].exists
    /\ tcall.op = "transcribe" => tcall.had = {tcall.path}
    /\ \A p \in holders : tfiles[p].exists => InSeq(tracked, p)

(***************************************************************************)
(* Group permissions                                                       *)
(***************************************************************************)
Disjoint(p, a) == p.blacklist[a] \cap p.whitelist[a] = {}

\* C38: a step of the service never makes an action's blacklist and whitelist
\* overlap when they did not before, and an update_group_permission call
\* leaves the lists of every action but its own as they were (a call that
\* raises leaves all lists as they were).
C38_ListsStayDisjoint ==
    [][ \A a \in PermActions :
          /\ Disjoint(perm, a) => Disjoint(perm', a)
          /\ (pcall'.op = "update" /\ (pcall'.action # a \/ pcall'.raised)) =>
                /\ perm'.blacklist[a] = perm.blacklist[a]
                /\ perm'.whitelist[a] = perm.whitelist[a]
          /\ perm'.enabled = perm.enabled ]_vars

\* an update has just moved a group from one list of an action to the other
C38_Witness ==
    /\ pcall.op = "update" /\ pcall.moved /\ ~pcall.allowed
    /\ pcall.ptype = "blacklist" /\ pcall.action = "recognition"
    /\ pcall.group \in perm.blacklist["recognition"]
    /\ pcall.group \notin perm.whitelist["recognition"]
    /\ perm.whitelist["recognition"] # {}
    /\ Disjoint(perm, "recognition")

\* C39 as stated: the answer of can_process_voice / can_generate_reply for a
\* group message is the one the lists give at the time of the call.
C39_AsStated ==
    (pcall.op \in {"can_process_voice", "can_generate_reply"}
        /\ pcall.mtype = "GROUP_MESSAGE")
    => pcall.result = _check_group_permission(perm, pcall.group, pcall.action)

====
